---- MODULE Spec2Model ----
(***************************************************************************)
(* Local persistence layer of StudioFlow: checksum-verified documents, the *)
(* filesystem backend (NodeStorage) with its write queue and staged        *)
(* writes, the key-store backend (BrowserStorage) with its debounce timer, *)
(* backups and corruption recovery.                                        *)
(***************************************************************************)
EXTENDS Integers, Sequences, FiniteSets, TLC

\* ------------------------------------------------------------------------
\* Bounds of the model
\* ------------------------------------------------------------------------
\* highest value of the wall clock (in ticks)
MaxTime == 2
\* number of distinct document bodies the domain layer submits
NumBodies == 2
\* number of save() calls in one run
MaxSaves == 2
\* number of injected storage faults in one run
MaxFaults == 1
\* number of external corruptions of stored content in one run
MaxCorrupt == 1

\* concurrent callers of getStorageAdapter / getStorageAdapterAsync
NumCallers == 3

\* clock ticks per second of the file-name timestamp
TicksPerSec == 2
\* StorageConfig.maxBackups, scaled
MaxBackups == 2
\* StorageConfig.backupRetentionDays, scaled to ticks
RetentionTicks == 2

\* ------------------------------------------------------------------------
\* JavaScript values and documents
\* ------------------------------------------------------------------------
\* A JavaScript value: its runtime tag and a payload.
JsVal(tag, payload) == [t |-> tag, v |-> payload]

\* typeof x
TypeOf(x) ==
  CASE x.t \in {"number", "nan"} -> "number"
    [] x.t = "string" -> "string"
    [] x.t = "undefined" -> "undefined"
    [] OTHER -> "object"

\* Array.isArray(x)
IsArray(x) == x.t = "array"

\* !x is false
Truthy(x) ==
  CASE x.t \in {"null", "undefined", "nan"} -> FALSE
    [] x.t = "number" -> x.v # 0
    [] x.t = "string" -> x.v # 0
    [] OTHER -> TRUE

\* The empty string '' of metadata.checksum.
EmptyChecksum == <<>>

\* The empty string '' of a timestamp field; instants are 1, 2, ...
EmptyTime == 0

\* DatabaseSchema.metadata
Metadata(sync, backup, sum) ==
  [t |-> "object", lastSync |-> sync, lastBackup |-> backup, checksum |-> sum]

\* The keys of a DatabaseSchema object in the order types.ts declares them
\* and createEmptySchema / dataContext insert them.
SchemaKeys ==
  <<"version", "clients", "projects", "tasks", "config", "metadata">>

\* DatabaseSchema; keys is the insertion order of its keys, ext marks
\* content altered outside this layer.
DatabaseSchema(body, meta) ==
  [t |-> "object",
   keys |-> SchemaKeys,
   version |-> JsVal("number", 1),
   clients |-> JsVal("array", 0),
   projects |-> JsVal("array", 0),
   tasks |-> JsVal("array", body),
   config |-> JsVal("object", 0),
   metadata |-> meta,
   ext |-> FALSE]

\* validateSchema(data)
validateSchema(data) ==
  /\ data.t \notin {"null", "undefined"}
  /\ data.t \in {"object", "array"}
  /\ TypeOf(data.version) = "number"
  /\ IsArray(data.clients)
  /\ IsArray(data.projects)
  /\ IsArray(data.tasks)
  /\ Truthy(data.config) /\ TypeOf(data.config) = "object"
  /\ data.metadata.t \notin {"null", "undefined"}
  /\ data.metadata.t \in {"object", "array"}

\* Code of a runtime tag inside the serialized text.
TagCode(tag) ==
  CASE tag = "number" -> 1
    [] tag = "string" -> 2
    [] tag = "array" -> 3
    [] tag = "object" -> 4
    [] OTHER -> 5

\* JSON.stringify(x) of one value: NaN prints as null, like null itself.
StringifyVal(x) ==
  IF x.t \in {"nan", "null", "undefined"} THEN <<TagCode("null")>>
  ELSE <<TagCode(x.t), x.v>>

\* Characters of a stored checksum string.
ChecksumChars(sum) == <<Len(sum)>> \o sum

\* Code of a key name inside the serialized text.
KeyCode(key) ==
  CASE key = "version" -> 11
    [] key = "clients" -> 12
    [] key = "projects" -> 13
    [] key = "tasks" -> 14
    [] key = "config" -> 15
    [] OTHER -> 16

\* The text of one key and its value.
StringifyField(data, key) ==
  <<KeyCode(key)>> \o
    CASE key = "version" -> StringifyVal(data.version)
      [] key = "clients" -> StringifyVal(data.clients)
      [] key = "projects" -> StringifyVal(data.projects)
      [] key = "tasks" -> StringifyVal(data.tasks)
      [] key = "config" -> StringifyVal(data.config)
      [] OTHER -> <<data.metadata.lastSync, data.metadata.lastBackup>>
                    \o ChecksumChars(data.metadata.checksum)

RECURSIVE StringifyFields(_, _)
StringifyFields(data, keys) ==
  IF keys = <<>> THEN <<>>
  ELSE StringifyField(data, Head(keys)) \o StringifyFields(data, Tail(keys))

\* JSON.stringify(data): the character codes of the text, the keys in
\* insertion order.
Stringify(data) == StringifyFields(data, data.keys)

\* 16-bit halves of a 32-bit word
Half == 65536

\* One round of the fallback hash on a 32-bit word <<hi, lo>>:
\* hash = ((hash << 5) - hash) + char; hash = hash & hash.
HashRound(h, char) ==
  LET lo == h[2] * 31 + char
      hi == h[1] * 31 + (lo \div Half)
  IN <<hi % Half, lo % Half>>

\* The loop over the characters, from position i on, with hash h so far.
RECURSIVE HashFrom(_, _, _)
HashFrom(h, s, i) ==
  IF i > Len(s) THEN h
  ELSE CHOOSE r \in { HashFrom(next, s, i + 1) :
                        next \in { HashRound(h, s[i]) } } : TRUE

\* Math.abs(hash) of the signed 32-bit word <<hi, lo>>
AbsWord(h) ==
  IF h[1] < Half \div 2 THEN h
  ELSE IF h[2] = 0 THEN <<(Half - h[1]) % Half, 0>>
  ELSE <<Half - 1 - h[1], Half - h[2]>>

\* The fallback branch of calculateChecksum: 32-bit string hash, hex.
FallbackHash(s) == AbsWord(HashFrom(<<0, 0>>, s, 1))

\* crypto.subtle.digest('SHA-256', ...): collision-free on the model's texts.
Sha256(s) == <<Len(s)>> \o s

VARIABLE cryptoSubtle

\* calculateChecksum(data)
calculateChecksum(data) ==
  IF cryptoSubtle THEN Sha256(Stringify(data)) ELSE FallbackHash(Stringify(data))

\* { ...data, metadata: { ...data.metadata, checksum: '' } }
ClearChecksum(data) ==
  [data EXCEPT !.metadata.checksum = EmptyChecksum]

\* validateChecksum(data)
validateChecksum(data) ==
  data.metadata.checksum = calculateChecksum(ClearChecksum(data))

\* An updateChecksum that computes the digest over the document as passed,
\* the old checksum included.
updateChecksumOverStale(data) ==
  [data EXCEPT !.metadata.checksum = calculateChecksum(data)]

\* updateChecksum(data)
updateChecksum(data) ==
  [ClearChecksum(data) EXCEPT
     !.metadata.checksum = calculateChecksum(ClearChecksum(data))]

\* ------------------------------------------------------------------------
\* Stored content
\* ------------------------------------------------------------------------
\* Document standing in where a slot holds no parsed document.
NoDoc == DatabaseSchema(0, Metadata(EmptyTime, EmptyTime, EmptyChecksum))

\* Content of a slot: absent (ENOENT), text that JSON.parse rejects, or
\* the text of a document.
Absent == [st |-> "absent", val |-> NoDoc]
Garbage == [st |-> "garbage", val |-> NoDoc]
Json(data) == [st |-> "json", val |-> data]

\* JSON.parse(JSON.stringify(data)): NaN comes back as null.
JsonValue(x) == IF x.t = "nan" THEN JsVal("null", 0) ELSE x
JsonRoundTrip(data) ==
  [data EXCEPT !.version = JsonValue(data.version)]

\* formatTimestampForFilename(): the clock cut to whole seconds.
formatTimestampForFilename(time) == time \div TicksPerSec

\* File name of the automatic copy: `studioflow-${timestamp}`
AutoBackupId(time) == <<"studioflow", formatTimestampForFilename(time)>>
\* Identifier of a manual backup: `backup-${timestamp}`
ManualBackupId(time) == <<"backup", formatTimestampForFilename(time)>>

VARIABLES
  now,          \* wall clock
  live,         \* studioflow.db.json / the 'main' record of store 'data'
  backups,      \* backup files / records of store 'backups'
  temp,         \* temp/studioflow-write-temp.json
  faults,       \* storage faults injected so far
  corruptions   \* external corruptions so far

\* NodeStorage: the write queue and the invocations of saveAtomic
VARIABLES
  writeQueue,   \* NodeStorage.writeQueue
  isProcessing, \* NodeStorage.isProcessing
  wpc,          \* position of each saveAtomic caller
  wdata,        \* its argument `data`
  wid,          \* its `backupFile` name
  wcur,         \* its `currentData`
  werr,         \* code of the error it caught
  wn,           \* submission number of the queued operation running
  cleanPending, \* cleanOldBackups() calls started and not finished
  cleanWarned,  \* a cleanOldBackups() call ended in its catch (warning logged)
  arg,          \* storage-utils: the value a function is called with
  ret,          \* storage-utils: the function called last and what it returned
  flushPc,      \* position of flush()
  rid,          \* restoreBackup: backupId
  rres          \* restoreBackup: outcome

\* load(), tryRestoreFromBackup() and createBackup()
VARIABLES
  lpc,          \* position of load()
  lcaller,      \* who called load(): the application or createBackup()
  lcands,       \* tryRestoreFromBackup: the sorted backups not yet tried
  lcur,         \* tryRestoreFromBackup: the content being promoted
  lres,         \* what load() returned
  lsnap,        \* the backup set when load() was called
  cpc,          \* position of createBackup()
  cres          \* what createBackup() returned

\* History of the run
VARIABLES
  submitted,    \* tasks of the arguments of the save() calls, in call order
  saveStatus,   \* state of the promise of each save() call
  liveWrites,   \* writes to the live slot, in completion order
  oneWindow     \* every save() so far arrived before any write started

\* BrowserStorage
VARIABLES
  saveQueue,    \* BrowserStorage.saveQueue
  saveTimeout,  \* BrowserStorage.saveTimeout
  jobs,         \* timer callbacks and flush() calls awaiting updateChecksum
  lstack        \* loops of tryRestoreFromBackup suspended in a nested load()

\* services/storage/index.ts: the singleton adapter
VARIABLES
  hasWindow,       \* typeof window and typeof indexedDB are defined
  storageInstance, \* module variable storageInstance
  storagePromise,  \* module variable storagePromise
  apc,             \* position of each caller of the module's getters
  aret,            \* what each caller's call returned
  created          \* adapters constructed so far

adapterVars == <<hasWindow, storageInstance, storagePromise, apc, aret,
                 created>>

\* Adapters are told apart by the order of their construction; 0 is null.
Null == 0

\* A Promise<StorageAdapter>, or null where st is "null".
PromiseOf(st, value) == [st |-> st, val |-> value]
NoPromise == PromiseOf("null", Null)

\* What a call of a getter gave its caller: nothing yet, a value it
\* returned or resolved to, or an error it threw.
Got(via, value) == [via |-> via, val |-> value]
NotCalled == Got("none", Null)

\* Callers of saveAtomic: the queue processor and restoreBackup.
Writers == {"queue", "restore"}

storeVars == <<live, backups, temp>>
envVars == <<now, faults, corruptions, cryptoSubtle>>
queueVars == <<writeQueue, isProcessing, wn>>
writerVars == <<wpc, wdata, wid, wcur, werr>>
histVars == <<submitted, saveStatus, liveWrites, oneWindow>>
restoreVars == <<rid, rres>>
loadVars == <<lpc, lcaller, lcands, lcur, lres, lsnap>>
createVars == <<cpc, cres>>
browserVars == <<saveQueue, saveTimeout, jobs, lstack>>
nodeVars == <<temp, writeQueue, isProcessing, wpc, wdata, wid, wcur, werr, wn,
              cleanPending, cleanWarned, arg, ret, adapterVars>>

\* Documents the domain layer passes to save(): dataContext.saveData.
SaveInputs ==
  { DatabaseSchema(b, Metadata(EmptyTime, EmptyTime, EmptyChecksum)) :
      b \in 1..NumBodies }

\* A backup slot.
Backup(id, content, time) ==
  [id |-> id, st |-> content.st, val |-> content.val, ts |-> time]

\* fs.writeFile(backupFile, ...): creates or replaces the file of that name.
PutBackup(set, b) == { x \in set : x.id # b.id } \cup {b}

HasBackup(id) == \E b \in backups : b.id = id
BackupOf(id) == CHOOSE b \in backups : b.id = id

\* ------------------------------------------------------------------------
\* NodeStorage: write queue, save, saveAtomic, restoreBackup, flush
\* ------------------------------------------------------------------------
\* JSON.stringify(data, null, 2) as the content of a file
Text(data) == Json(JsonRoundTrip(data))

\* A storage operation fails (permission, space, device).
Fault == /\ faults < MaxFaults
         /\ faults' = faults + 1
NoFault == faults' = faults

\* The event loop gets to run timers, I/O callbacks and new calls: flush()
\* is not spinning (see Flush).
EventLoopFree == flushPc # "spin"

\* A queued save has reached saveAtomic or has settled.
WriteStarted ==
  \/ wpc["queue"] \notin {"idle", "debounce"}
  \/ \E i \in 1..Len(saveStatus) : saveStatus[i] # "pending"

\* The operation closure that save() hands to enqueueWrite.
Operation(n, data) == [n |-> n, data |-> data]

\* save(data) -> enqueueWrite -> processQueue: the operation is pushed;
\* an idle processor shifts it at once and starts its debounce delay.
Save(data) ==
  /\ EventLoopFree
  /\ Len(submitted) < MaxSaves
  /\ submitted' = Append(submitted, data.tasks.v)
  /\ saveStatus' = Append(saveStatus, "pending")
  /\ oneWindow' = (oneWindow /\ ~WriteStarted)
  /\ IF isProcessing
       THEN /\ writeQueue' =
                 Append(writeQueue, Operation(Len(submitted) + 1, data))
            /\ UNCHANGED <<isProcessing, wn, wpc, wdata>>
       ELSE /\ isProcessing' = TRUE
            /\ wn' = Len(submitted) + 1
            /\ wpc' = [wpc EXCEPT !["queue"] = "debounce"]
            /\ wdata' = [wdata EXCEPT !["queue"] = data]
            /\ UNCHANGED writeQueue
  /\ UNCHANGED <<storeVars, envVars, wid, wcur, werr, cleanPending, cleanWarned, arg, ret, adapterVars, flushPc,
                 restoreVars, liveWrites, loadVars, createVars,
                 browserVars>>

\* Entry of saveAtomic(data): the backup file name is fixed and the
\* argument validated (step 1); the staging write is issued.
EnterSaveAtomic(w, data) ==
  /\ wid' = [wid EXCEPT ![w] = AutoBackupId(now)]
  /\ wdata' = [wdata EXCEPT ![w] = data]
  /\ IF validateSchema(data)
       THEN /\ wpc' = [wpc EXCEPT ![w] = "writeTemp"]
            /\ UNCHANGED werr
       ELSE /\ wpc' = [wpc EXCEPT ![w] = "catch"]
            /\ werr' = [werr EXCEPT ![w] = "invalid"]

\* The debounce delay of the running operation lapses: the checksum is
\* refreshed with lastSync = now and saveAtomic is entered.
DebounceLapse ==
  /\ EventLoopFree
  /\ wpc["queue"] = "debounce"
  /\ EnterSaveAtomic("queue",
       updateChecksum([wdata["queue"] EXCEPT !.metadata.lastSync = now]))
  /\ UNCHANGED <<storeVars, envVars, queueVars, wcur, cleanPending, cleanWarned, arg, ret, adapterVars, flushPc,
                 restoreVars, histVars, loadVars, createVars,
                 browserVars>>

\* The caller of saveAtomic goes to the catch block with an error code.
Throw(w, code) ==
  /\ wpc' = [wpc EXCEPT ![w] = "catch"]
  /\ werr' = [werr EXCEPT ![w] = code]

\* Step 2 writing the document straight into the live file.
StageWriteInPlace(w) ==
  /\ EventLoopFree
  /\ wpc[w] = "writeTemp"
  /\ NoFault
  /\ live' = Text(wdata[w])
  /\ wpc' = [wpc EXCEPT ![w] = "readTemp"]
  /\ UNCHANGED <<temp, werr, backups, now, corruptions, cryptoSubtle,
                 queueVars, wdata, wid, wcur, cleanPending, cleanWarned, arg, ret, adapterVars, flushPc,
                 restoreVars, histVars, loadVars, createVars,
                 browserVars>>

\* Step 2: fs.writeFile(tempFile, jsonString)
StageWrite(w) ==
  /\ EventLoopFree
  /\ wpc[w] = "writeTemp"
  /\ \/ /\ NoFault
        /\ temp' = Text(wdata[w])
        /\ wpc' = [wpc EXCEPT ![w] = "readTemp"]
        /\ UNCHANGED werr
     \/ /\ Fault
        /\ Throw(w, "EIO")
        /\ UNCHANGED temp
  /\ UNCHANGED <<live, backups, now, corruptions, cryptoSubtle, queueVars,
                 wdata, wid, wcur, cleanPending, cleanWarned, arg, ret, adapterVars, flushPc, restoreVars,
                 histVars, loadVars, createVars,
                 browserVars>>

\* Step 3: read the staging file back, parse and validate it.
StageCheck(w) ==
  /\ EventLoopFree
  /\ wpc[w] = "readTemp"
  /\ \/ /\ NoFault
        /\ IF temp.st = "absent" THEN Throw(w, "ENOENT")
           ELSE IF temp.st = "garbage" THEN Throw(w, "SyntaxError")
           ELSE IF ~validateSchema(temp.val) THEN Throw(w, "staging")
           ELSE /\ wpc' = [wpc EXCEPT ![w] = "readLive"]
                /\ UNCHANGED werr
     \/ /\ Fault
        /\ Throw(w, "EIO")
  /\ UNCHANGED <<storeVars, now, corruptions, cryptoSubtle, queueVars,
                 wdata, wid, wcur, cleanPending, cleanWarned, arg, ret, adapterVars, flushPc, restoreVars,
                 histVars, loadVars, createVars,
                 browserVars>>

\* Step 4, first half: fs.readFile(dataFile); any error skips the copy.
ReadCurrent(w) ==
  /\ EventLoopFree
  /\ wpc[w] = "readLive"
  /\ \/ /\ NoFault
        /\ IF live.st = "absent"
             THEN /\ wpc' = [wpc EXCEPT ![w] = "rename"]
                  /\ UNCHANGED wcur
             ELSE /\ wpc' = [wpc EXCEPT ![w] = "writeBackup"]
                  /\ wcur' = [wcur EXCEPT ![w] = live]
     \/ /\ Fault
        /\ wpc' = [wpc EXCEPT ![w] = "rename"]
        /\ UNCHANGED wcur
  /\ UNCHANGED <<storeVars, now, corruptions, cryptoSubtle, queueVars,
                 wdata, wid, werr, cleanPending, cleanWarned, arg, ret, adapterVars, flushPc, restoreVars,
                 histVars, loadVars, createVars,
                 browserVars>>

\* Step 4, second half: fs.writeFile(backupFile, currentData); an error is
\* swallowed by the inner catch.
BackupWrite(w) ==
  /\ EventLoopFree
  /\ wpc[w] = "writeBackup"
  /\ \/ /\ NoFault
        /\ backups' = PutBackup(backups, Backup(wid[w], wcur[w], now))
     \/ /\ Fault
        /\ UNCHANGED backups
  /\ wpc' = [wpc EXCEPT ![w] = "rename"]
  /\ wcur' = [wcur EXCEPT ![w] = Absent]
  /\ UNCHANGED <<live, temp, now, corruptions, cryptoSubtle, queueVars,
                 wdata, wid, werr, cleanPending, cleanWarned, arg, ret, adapterVars, flushPc, restoreVars,
                 histVars, loadVars, createVars,
                 browserVars>>

\* processQueue after the running operation settled: shift the next
\* operation (its debounce delay starts) or stop processing.
QueueNext ==
  IF writeQueue # <<>>
    THEN /\ writeQueue' = Tail(writeQueue)
         /\ wn' = Head(writeQueue).n
         /\ wpc' = [wpc EXCEPT !["queue"] = "debounce"]
         /\ wdata' = [wdata EXCEPT !["queue"] = Head(writeQueue).data]
         /\ UNCHANGED isProcessing
    ELSE /\ isProcessing' = FALSE
         /\ wn' = 0
         /\ wpc' = [wpc EXCEPT !["queue"] = "idle"]
         /\ wdata' = [wdata EXCEPT !["queue"] = NoDoc]
         /\ UNCHANGED writeQueue

\* restoreBackup's catch: ENOENT is reported as "backup not found".
RestoreOutcome(code) ==
  IF code = "none" THEN "ok"
  ELSE IF code = "ENOENT" THEN "notfound"
  ELSE "error"

\* A processQueue without the try/catch around the operation: the error of
\* a failing operation leaves the loop, the operations still queued stay
\* where they are and isProcessing stays set.
SettleLeavingLoop(w, code) ==
  IF w = "queue"
    THEN /\ saveStatus' = [saveStatus EXCEPT
                             ![wn] = IF code = "none" THEN "resolved"
                                     ELSE "rejected"]
         /\ IF code = "none"
              THEN QueueNext
              ELSE /\ wn' = 0
                   /\ wpc' = [wpc EXCEPT !["queue"] = "idle"]
                   /\ wdata' = [wdata EXCEPT !["queue"] = NoDoc]
                   /\ UNCHANGED <<writeQueue, isProcessing>>
         /\ UNCHANGED restoreVars
    ELSE /\ rres' = RestoreOutcome(code)
         /\ wpc' = [wpc EXCEPT ![w] = "idle"]
         /\ wdata' = [wdata EXCEPT ![w] = NoDoc]
         /\ UNCHANGED <<rid, queueVars, saveStatus>>

\* saveAtomic returns or throws to its caller: the queued operation
\* settles the promise of its save(); restoreBackup settles its own.
Settle(w, code) ==
  IF w = "queue"
    THEN /\ saveStatus' = [saveStatus EXCEPT
                             ![wn] = IF code = "none" THEN "resolved"
                                     ELSE "rejected"]
         /\ QueueNext
         /\ UNCHANGED restoreVars
    ELSE /\ rres' = RestoreOutcome(code)
         /\ wpc' = [wpc EXCEPT ![w] = "idle"]
         /\ wdata' = [wdata EXCEPT ![w] = NoDoc]
         /\ UNCHANGED <<rid, queueVars, saveStatus>>

\* An entry of the history of writes to the live slot: who wrote, for
\* which save() call, and the tasks written.
LiveWrite(by, n, content) == [by |-> by, n |-> n, body |-> content.val.tasks.v]

\* Steps 5 and 6: fs.rename(tempFile, dataFile), then cleanOldBackups()
\* is started without being awaited.
Swap(w) ==
  /\ EventLoopFree
  /\ wpc[w] = "rename"
  /\ \/ /\ NoFault
        /\ temp.st # "absent"
        /\ live' = temp
        /\ temp' = Absent
        /\ cleanPending' = cleanPending + 1
        /\ UNCHANGED <<cleanWarned, arg, ret, adapterVars>>
        /\ liveWrites' = Append(liveWrites,
             LiveWrite(w, IF w = "queue" THEN wn ELSE 0, temp))
        /\ Settle(w, "none")
        /\ UNCHANGED werr
     \/ /\ NoFault
        /\ temp.st = "absent"
        /\ Throw(w, "ENOENT")
        /\ UNCHANGED <<live, temp, cleanPending, cleanWarned, arg, ret, adapterVars, liveWrites, queueVars,
                       wdata, saveStatus, restoreVars>>
     \/ /\ Fault
        /\ Throw(w, "EIO")
        /\ UNCHANGED <<live, temp, cleanPending, cleanWarned, arg, ret, adapterVars, liveWrites, queueVars,
                       wdata, saveStatus, restoreVars>>
  /\ wid' = [wid EXCEPT ![w] = AutoBackupId(0)]
  /\ UNCHANGED <<backups, now, corruptions, cryptoSubtle, wcur, flushPc,
                 submitted, oneWindow, loadVars, createVars,
                 browserVars>>

\* The catch block of saveAtomic: unlink the staging file, rethrow.
Catch(w) ==
  /\ EventLoopFree
  /\ wpc[w] = "catch"
  /\ temp' = Absent
  /\ Settle(w, werr[w])
  /\ werr' = [werr EXCEPT ![w] = "none"]
  /\ wid' = [wid EXCEPT ![w] = AutoBackupId(0)]
  /\ wcur' = [wcur EXCEPT ![w] = Absent]
  /\ UNCHANGED <<live, backups, envVars, cleanPending, cleanWarned, arg, ret, adapterVars, flushPc, submitted,
                 liveWrites, oneWindow, loadVars, createVars,
                 browserVars>>

\* restoreBackup handing whatever the backup file holds to saveAtomic,
\* without the validateSchema check of its own.
RestoreBackupUnchecked(id) ==
  /\ EventLoopFree
  /\ wpc["restore"] = "idle"
  /\ rres = "none"
  /\ rid' = id
  /\ IF ~HasBackup(id)
       THEN /\ rres' = RestoreOutcome("ENOENT")
            /\ UNCHANGED writerVars
       ELSE /\ wid' = [wid EXCEPT !["restore"] = AutoBackupId(now)]
            /\ wdata' = [wdata EXCEPT !["restore"] = BackupOf(id).val]
            /\ wpc' = [wpc EXCEPT !["restore"] = "writeTemp"]
            /\ UNCHANGED <<rres, wcur, werr>>
  /\ UNCHANGED <<storeVars, envVars, queueVars, cleanPending, cleanWarned, arg, ret, adapterVars, flushPc,
                 histVars, loadVars, createVars,
                 browserVars>>

\* restoreBackup(backupId): read and parse the backup file, validate its
\* schema, then call saveAtomic directly.
RestoreBackup(id) ==
  /\ EventLoopFree
  /\ wpc["restore"] = "idle"
  /\ rres = "none"
  /\ rid' = id
  /\ IF ~HasBackup(id)
       THEN /\ rres' = RestoreOutcome("ENOENT")
            /\ UNCHANGED writerVars
       ELSE IF BackupOf(id).st = "garbage" \/ ~validateSchema(BackupOf(id).val)
         THEN /\ rres' = RestoreOutcome("invalid")
              /\ UNCHANGED writerVars
         ELSE /\ EnterSaveAtomic("restore", BackupOf(id).val)
              /\ UNCHANGED <<rres, wcur>>
  /\ UNCHANGED <<storeVars, envVars, queueVars, cleanPending, cleanWarned, arg, ret, adapterVars, flushPc,
                 histVars, loadVars, createVars,
                 browserVars>>

\* flush(): while (writeQueue.length > 0) await processQueue().  With an
\* empty queue it returns at once; otherwise isProcessing is set,
\* processQueue() returns immediately and the loop never yields.
Flush ==
  /\ flushPc = "idle"
  /\ flushPc' = IF writeQueue = <<>> THEN "resolved" ELSE "spin"
  /\ UNCHANGED <<storeVars, envVars, queueVars, writerVars, cleanPending, cleanWarned, arg, ret, adapterVars,
                 restoreVars, histVars, loadVars, createVars,
                 browserVars>>

\* The clock advances.
Tick ==
  /\ now < MaxTime
  /\ now' = now + 1
  /\ UNCHANGED <<storeVars, faults, corruptions, cryptoSubtle, queueVars,
                 writerVars, cleanPending, cleanWarned, arg, ret, adapterVars, flushPc, restoreVars, histVars, loadVars, createVars,
                 browserVars>>

\* ------------------------------------------------------------------------
\* NodeStorage: listBackups, cleanOldBackups, load, recovery, createBackup
\* ------------------------------------------------------------------------
\* BackupInfo.timestamp as listBackups() reports it:
\* data.metadata?.lastBackup || stats.mtime.toISOString()
ListedTimestamp(b) ==
  IF /\ b.val.metadata.t \notin {"null", "undefined"}
     /\ b.val.metadata.lastBackup # EmptyTime
    THEN b.val.metadata.lastBackup
    ELSE b.ts

\* listBackups(): one entry per backup file that parses.
listBackups == { b \in backups : b.st = "json" }

\* The orders in which Array.sort can leave the listed backups, oldest
\* first; entries with equal timestamps keep the directory order.
OldestFirst(set) ==
  { s \in [1..Cardinality(set) -> set] :
      /\ \A i, j \in DOMAIN s : i # j => s[i] # s[j]
      /\ \A i, j \in DOMAIN s :
           i < j => ListedTimestamp(s[i]) <= ListedTimestamp(s[j]) }

\* The same, newest first.
NewestFirst(set) ==
  { s \in [1..Cardinality(set) -> set] :
      /\ \A i, j \in DOMAIN s : i # j => s[i] # s[j]
      /\ \A i, j \in DOMAIN s :
           i < j => ListedTimestamp(s[i]) >= ListedTimestamp(s[j]) }

\* Identifiers that the loop of cleanOldBackups unlinks, given the sorted
\* list: older than the cutoff, or beyond maxBackups counted from the end.
Evicted(sorted, time) ==
  { sorted[i].id : i \in
      { k \in DOMAIN sorted :
          \/ ListedTimestamp(sorted[k]) < time - RetentionTicks
          \/ k - 1 < Len(sorted) - MaxBackups } }

\* Backups still stored when the loop of cleanOldBackups has passed the
\* first k entries of the sorted list.
Unlinked(sorted, time, k) ==
  { b \in backups :
      b.id \notin (Evicted(sorted, time) \cap { sorted[i].id : i \in 1..k }) }

\* The work of cleanOldBackups(): list, sort, unlink. Either it completes,
\* or readdir or one of the unlinks throws: the loop stops there and the
\* catch of cleanOldBackups logs a warning.
CleanOldBackupsBody ==
  \E sorted \in OldestFirst(listBackups) :
    \/ /\ NoFault
       /\ backups' = Unlinked(sorted, now, Len(sorted))
       /\ UNCHANGED cleanWarned
    \/ /\ Fault
       /\ \E k \in 0..Len(sorted) :
            /\ k = 0 \/ k < Len(sorted)
            /\ backups' = Unlinked(sorted, now, k)
       /\ cleanWarned' = TRUE

\* A cleanOldBackups() that saveAtomic awaits and whose error it lets
\* through: the failure rejects the write that started it.
CleanOldBackupsAwaited ==
  /\ EventLoopFree
  /\ cleanPending > 0
  /\ cleanPending' = cleanPending - 1
  /\ CleanOldBackupsBody
  /\ IF faults' # faults /\ liveWrites # <<>>
          /\ liveWrites[Len(liveWrites)].by = "queue"
       THEN saveStatus' = [saveStatus EXCEPT
                             ![liveWrites[Len(liveWrites)].n] = "rejected"]
       ELSE UNCHANGED saveStatus
  /\ UNCHANGED <<live, temp, now, corruptions, cryptoSubtle, queueVars,
                 writerVars, flushPc, restoreVars, submitted, liveWrites,
                 oneWindow, loadVars, createVars, browserVars, arg, ret, adapterVars>>

\* cleanOldBackups(), started by saveAtomic without being awaited; what it
\* throws goes to its own catch and to the .catch of saveAtomic.
CleanOldBackups ==
  /\ EventLoopFree
  /\ cleanPending > 0
  /\ cleanPending' = cleanPending - 1
  /\ CleanOldBackupsBody
  /\ UNCHANGED <<live, temp, now, corruptions, cryptoSubtle, queueVars,
                 writerVars, flushPc, restoreVars, histVars, loadVars,
                 createVars, browserVars, arg, ret, adapterVars>>

\* What load() hands to its caller.
LoadResult(kind, data, via) == [kind |-> kind, val |-> data, via |-> via]
NoResult == LoadResult("none", NoDoc, "none")

\* load() returns.
Return(result) ==
  /\ lpc' = "returned"
  /\ lres' = result
  /\ lcands' = <<>>
  /\ lcur' = Absent

\* load(): read and parse the live file, validate schema and checksum.
\* ENOENT returns null; every other failure enters tryRestoreFromBackup.
LoadRead ==
  /\ EventLoopFree
  /\ lpc = "reading"
  /\ IF live.st = "absent"
       THEN Return(LoadResult("null", NoDoc, "firstRun"))
     ELSE IF /\ live.st = "json"
             /\ validateSchema(live.val)
             /\ validateChecksum(live.val)
       THEN Return(LoadResult("doc", live.val, "live"))
     ELSE /\ lpc' = "listing"
          /\ UNCHANGED <<lcands, lcur, lres>>
  /\ UNCHANGED <<storeVars, envVars, queueVars, writerVars, cleanPending, cleanWarned, arg, ret, adapterVars,
                 flushPc, restoreVars, histVars, lcaller, lsnap, createVars,
                 browserVars>>

\* The application calls load().
Load ==
  /\ EventLoopFree
  /\ lpc = "idle"
  /\ lpc' = "reading"
  /\ lcaller' = "load"
  /\ lsnap' = backups
  /\ UNCHANGED <<storeVars, envVars, queueVars, writerVars, cleanPending, cleanWarned, arg, ret, adapterVars,
                 flushPc, restoreVars, histVars, lcands, lcur, lres,
                 createVars,
                 browserVars>>

\* tryRestoreFromBackup(): list the backups and sort them newest first.
RecoverList ==
  /\ EventLoopFree
  /\ lpc = "listing"
  /\ IF listBackups = {}
       THEN Return(LoadResult("null", NoDoc, "exhausted"))
       ELSE /\ \E sorted \in NewestFirst(listBackups) :
                 lcands' = [i \in DOMAIN sorted |-> sorted[i].id]
            /\ lpc' = "trying"
            /\ UNCHANGED <<lcur, lres>>
  /\ UNCHANGED <<storeVars, envVars, queueVars, writerVars, cleanPending, cleanWarned, arg, ret, adapterVars,
                 flushPc, restoreVars, histVars, lcaller, lsnap, createVars,
                 browserVars>>

\* The loop of tryRestoreFromBackup accepting a candidate on
\* validateSchema alone.
RecoverTryUnverified ==
  /\ EventLoopFree
  /\ lpc = "trying"
  /\ IF lcands = <<>>
       THEN Return(LoadResult("null", NoDoc, "exhausted"))
     ELSE IF /\ HasBackup(Head(lcands))
             /\ BackupOf(Head(lcands)).st = "json"
             /\ validateSchema(BackupOf(Head(lcands)).val)
       THEN /\ lpc' = "promoting"
            /\ lcur' = Json(BackupOf(Head(lcands)).val)
            /\ UNCHANGED <<lcands, lres>>
     ELSE /\ lcands' = Tail(lcands)
          /\ UNCHANGED <<lpc, lcur, lres>>
  /\ UNCHANGED <<storeVars, envVars, queueVars, writerVars, cleanPending, cleanWarned, arg, ret, adapterVars,
                 flushPc, restoreVars, histVars, lcaller, lsnap, createVars,
                 browserVars>>

\* The loop of tryRestoreFromBackup on the next candidate: read, parse,
\* validateSchema, validateChecksum; a candidate that passes is written
\* to the live file, any other is skipped.
RecoverTry ==
  /\ EventLoopFree
  /\ lpc = "trying"
  /\ IF lcands = <<>>
       THEN Return(LoadResult("null", NoDoc, "exhausted"))
     ELSE IF /\ HasBackup(Head(lcands))
             /\ BackupOf(Head(lcands)).st = "json"
             /\ validateSchema(BackupOf(Head(lcands)).val)
             /\ validateChecksum(BackupOf(Head(lcands)).val)
       THEN /\ lpc' = "promoting"
            /\ lcur' = Json(BackupOf(Head(lcands)).val)
            /\ UNCHANGED <<lcands, lres>>
     ELSE /\ lcands' = Tail(lcands)
          /\ UNCHANGED <<lpc, lcur, lres>>
  /\ UNCHANGED <<storeVars, envVars, queueVars, writerVars, cleanPending, cleanWarned, arg, ret, adapterVars,
                 flushPc, restoreVars, histVars, lcaller, lsnap, createVars,
                 browserVars>>

\* A file that fs.writeFile has opened (and so truncated) and not yet
\* written in full.
Partial == [st |-> "partial", val |-> NoDoc]

\* fs.writeFile(this.dataFile, content), first half: the live file is
\* opened for writing, which truncates it; a failure to open it moves on to
\* the next candidate.
RecoverOpen ==
  /\ EventLoopFree
  /\ lpc = "promoting"
  /\ \/ /\ NoFault
        /\ live' = Partial
        /\ lpc' = "writing"
        /\ UNCHANGED <<lcands, lcur>>
     \/ /\ Fault
        /\ lpc' = "trying"
        /\ lcands' = Tail(lcands)
        /\ lcur' = Absent
        /\ UNCHANGED live
  /\ UNCHANGED <<backups, temp, now, corruptions, cryptoSubtle, queueVars,
                 writerVars, cleanPending, cleanWarned, arg, ret, adapterVars, flushPc, restoreVars, histVars,
                 lcaller, lres, lsnap, createVars, browserVars>>

\* fs.writeFile(this.dataFile, content), second half: the candidate
\* becomes the live file and is returned; a failed write leaves the file
\* incomplete and moves on to the next candidate.
RecoverPromote ==
  /\ EventLoopFree
  /\ lpc = "writing"
  /\ \/ /\ NoFault
        /\ live' = lcur
        /\ liveWrites' = Append(liveWrites, LiveWrite("recovery", 0, lcur))
        /\ Return(LoadResult("doc", lcur.val, "recovered"))
     \/ /\ Fault
        /\ lpc' = "trying"
        /\ lcands' = Tail(lcands)
        /\ lcur' = Absent
        /\ UNCHANGED <<live, liveWrites, lres>>
  /\ UNCHANGED <<backups, temp, now, corruptions, cryptoSubtle, queueVars,
                 writerVars, cleanPending, cleanWarned, arg, ret, adapterVars, flushPc, restoreVars, submitted,
                 saveStatus, oneWindow, lcaller, lsnap, createVars,
                 browserVars>>

\* createBackup() is called: it starts with load().
CreateBackup ==
  /\ EventLoopFree
  /\ cpc = "idle"
  /\ lpc \in {"idle", "returned"}
  /\ cpc' = "loading"
  /\ cres' = "none"
  /\ lpc' = "reading"
  /\ lcaller' = "createBackup"
  /\ lres' = NoResult
  /\ lsnap' = backups
  /\ UNCHANGED <<storeVars, envVars, queueVars, writerVars, cleanPending, cleanWarned, arg, ret, adapterVars,
                 flushPc, restoreVars, histVars, lcands, lcur,
                 browserVars>>

\* { ...data, metadata: { ...data.metadata, lastBackup: now } }
BackupData(data, time) == [data EXCEPT !.metadata.lastBackup = time]

\* createBackup() without the `if (!data) throw`: whatever load() returned
\* is written as a backup.
CreateBackupWriteUnguarded ==
  /\ EventLoopFree
  /\ cpc = "loading"
  /\ lpc = "returned"
  /\ lcaller = "createBackup"
  /\ lpc' = "idle"
  /\ lres' = NoResult
  /\ cpc' = "cleaning"
  /\ backups' = PutBackup(backups,
       Backup(ManualBackupId(now), Text(BackupData(lres.val, now)), now))
  /\ UNCHANGED cres
  /\ UNCHANGED <<live, temp, envVars, queueVars, writerVars, cleanPending, cleanWarned, arg, ret, adapterVars,
                 flushPc, restoreVars, histVars, lcaller, lcands, lcur,
                 lsnap,
                 browserVars>>

\* createBackup() after load(): without data it throws; otherwise it
\* writes the backup file under `backup-${timestamp}`.
CreateBackupWrite ==
  /\ EventLoopFree
  /\ cpc = "loading"
  /\ lpc = "returned"
  /\ lcaller = "createBackup"
  /\ lpc' = "idle"
  /\ lres' = NoResult
  /\ IF lres.kind # "doc"
       THEN /\ cpc' = "idle"
            /\ cres' = "error"
            /\ UNCHANGED backups
       ELSE /\ cpc' = "cleaning"
            /\ backups' = PutBackup(backups,
                 Backup(ManualBackupId(now), Text(BackupData(lres.val, now)),
                        now))
            /\ UNCHANGED cres
  /\ UNCHANGED <<live, temp, envVars, queueVars, writerVars, cleanPending, cleanWarned, arg, ret, adapterVars,
                 flushPc, restoreVars, histVars, lcaller, lcands, lcur,
                 lsnap,
                 browserVars>>

\* createBackup() awaits cleanOldBackups() and returns the identifier.
CreateBackupClean ==
  /\ EventLoopFree
  /\ cpc = "cleaning"
  /\ cpc' = "idle"
  /\ cres' = "ok"
  /\ \E sorted \in OldestFirst(listBackups) :
       backups' = { b \in backups : b.id \notin Evicted(sorted, now) }
  /\ UNCHANGED <<live, temp, envVars, queueVars, writerVars, cleanPending, cleanWarned, arg, ret, adapterVars,
                 flushPc, restoreVars, histVars, loadVars,
                 browserVars>>

\* ------------------------------------------------------------------------
\* Environment: corruption of stored content
\* ------------------------------------------------------------------------
\* What a stored document can turn into outside this layer: unparseable
\* text, a changed body under the old checksum, a broken structure.
Corrupted(content) ==
  { Garbage,
    Json([content.val EXCEPT !.tasks.v = 0, !.ext = TRUE]),
    Json([content.val EXCEPT !.version = JsVal("string", 1), !.ext = TRUE]) }

CorruptLive ==
  /\ corruptions < MaxCorrupt
  /\ live.st = "json"
  /\ corruptions' = corruptions + 1
  /\ \E c \in Corrupted(live) : live' = c
  /\ UNCHANGED <<backups, temp, now, faults, cryptoSubtle, queueVars,
                 writerVars, cleanPending, cleanWarned, arg, ret, adapterVars, flushPc, restoreVars, histVars,
                 loadVars, createVars,
                 browserVars>>

CorruptBackup ==
  /\ corruptions < MaxCorrupt
  /\ corruptions' = corruptions + 1
  /\ \E b \in listBackups :
       \E c \in Corrupted(b) :
         backups' = PutBackup(backups, Backup(b.id, c, b.ts))
  /\ UNCHANGED <<live, temp, now, faults, cryptoSubtle, queueVars,
                 writerVars, cleanPending, cleanWarned, arg, ret, adapterVars, flushPc, restoreVars, histVars,
                 loadVars, createVars,
                 browserVars>>

\* ------------------------------------------------------------------------
\* NodeStorage: the specification
\* ------------------------------------------------------------------------
vars == <<now, live, backups, temp, faults, corruptions, cryptoSubtle,
          writeQueue, isProcessing, wpc, wdata, wid, wcur, werr, wn,
          cleanPending, cleanWarned, arg, ret, adapterVars, flushPc, rid, rres,
          lpc, lcaller, lcands, lcur, lres, lsnap, cpc, cres,
          submitted, saveStatus, liveWrites, oneWindow,
          saveQueue, saveTimeout, jobs, lstack>>

\* Identifiers a caller may pass to restoreBackup: those stored, and one
\* that was never stored.
RestoreIds == { b.id : b \in backups } \cup { ManualBackupId(0) }

\* A document as an earlier run of the application saved it.
SavedDoc(body, time) ==
  updateChecksum(DatabaseSchema(body,
                   Metadata(time, EmptyTime, EmptyChecksum)))

\* What the data directory holds when the process starts: nothing (first
\* run), or the live file and the automatic copy that the last two saves
\* of an earlier run left behind.
PriorStores ==
  { [live |-> Absent, backups |-> {}],
    [live |-> Text(SavedDoc(1, 1)),
     backups |-> { Backup(AutoBackupId(1), Text(SavedDoc(NumBodies, 1)), 1) }] }

\* Everything but the stored content and the digest in use: no call has
\* been made yet.
InitIdle ==
  /\ now = 1
  /\ temp = Absent
  /\ faults = 0
  /\ corruptions = 0
  /\ writeQueue = <<>>
  /\ isProcessing = FALSE
  /\ wpc = [w \in Writers |-> "idle"]
  /\ wdata = [w \in Writers |-> NoDoc]
  /\ wid = [w \in Writers |-> AutoBackupId(0)]
  /\ wcur = [w \in Writers |-> Absent]
  /\ werr = [w \in Writers |-> "none"]
  /\ wn = 0
  /\ cleanPending = 0
  /\ cleanWarned = FALSE
  /\ storageInstance = Null
  /\ storagePromise = NoPromise
  /\ apc = [c \in 1..NumCallers |-> "idle"]
  /\ aret = [c \in 1..NumCallers |-> NotCalled]
  /\ created = 0
  /\ flushPc = "idle"
  /\ rid = ManualBackupId(0)
  /\ rres = "none"
  /\ lpc = "idle"
  /\ lcaller = "load"
  /\ lcands = <<>>
  /\ lcur = Absent
  /\ lres = NoResult
  /\ lsnap = {}
  /\ cpc = "idle"
  /\ cres = "none"
  /\ submitted = <<>>
  /\ saveStatus = <<>>
  /\ liveWrites = <<>>
  /\ oneWindow = TRUE
  /\ saveQueue = <<>>
  /\ saveTimeout = "null"
  /\ jobs = {}
  /\ lstack = <<>>

\* What a call of a storage-utils function returned: a document, a
\* boolean or a checksum string, by the function.
Returned(fn, val, ok, sum) == [fn |-> fn, val |-> val, ok |-> ok, sum |-> sum]
NoReturn == Returned("none", NoDoc, FALSE, EmptyChecksum)

InitProcess ==
  /\ InitIdle
  /\ arg = NoDoc
  /\ ret = NoReturn

\* A process whose runtime has crypto.subtle starts on one of the prior
\* data directories.
InitNode ==
  /\ cryptoSubtle = TRUE
  /\ hasWindow = FALSE
  /\ \E store \in PriorStores :
       /\ live = store.live
       /\ backups = store.backups
  /\ InitProcess

\* flush() spinning on an unfinished queue keeps the event loop from ever
\* running a timer or an I/O callback again.
FlushSpin ==
  /\ flushPc = "spin"
  /\ UNCHANGED vars

NextNode ==
  \/ \E data \in SaveInputs : Save(data)
  \/ DebounceLapse
  \/ \E w \in Writers : StageWrite(w)
  \/ \E w \in Writers : StageCheck(w)
  \/ \E w \in Writers : ReadCurrent(w)
  \/ \E w \in Writers : BackupWrite(w)
  \/ \E w \in Writers : Swap(w)
  \/ \E w \in Writers : Catch(w)
  \/ \E id \in RestoreIds : RestoreBackup(id)
  \/ CleanOldBackups
  \/ Flush
  \/ FlushSpin

SpecNode == InitNode /\ [][NextNode]_vars

\* ------------------------------------------------------------------------
\* Properties of the write path of NodeStorage
\* ------------------------------------------------------------------------
\* Positions inside saveAtomic.
InSaveAtomic(w) ==
  wpc[w] \in {"writeTemp", "readTemp", "readLive", "writeBackup", "rename",
              "catch"}

\* No queued save is waiting, running or unsettled.
Drained ==
  /\ writeQueue = <<>>
  /\ wpc["queue"] = "idle"
  /\ \A i \in 1..Len(saveStatus) : saveStatus[i] # "pending"

\* Only save() calls have run, and nothing failed.
OnlySaves ==
  /\ faults = 0
  /\ rres = "none"
  /\ wpc["restore"] = "idle"

\* The writes to the live slot made for save() calls.
SaveWrites == SelectSeq(liveWrites, LAMBDA x : x.by = "queue")

\* C1: the save() calls of one debounce window (none arrived after a write
\* had started) end in exactly one write to the live slot, and that write
\* carries the argument of the last call.
C1_DebounceCoalescing ==
  (Drained /\ OnlySaves /\ oneWindow /\ Len(submitted) >= 1)
    => /\ Len(SaveWrites) = 1
       /\ SaveWrites[1].body = submitted[Len(submitted)]

\* C2: at most one invocation of saveAtomic is in progress at any moment.
C2_SingleFlight ==
  Cardinality({ w \in Writers : InSaveAtomic(w) }) <= 1

\* The step of caller w that completes the rename of step 5.
Swapped(w) == wpc[w] = "rename" /\ wpc'[w] # "catch"

\* C3: every step that a saveAtomic invocation takes before its rename has
\* completed (validation, staging write, read-back, backup copy, a failing
\* rename, the catch block) leaves the live file as it was; the run may
\* stop after any of these steps.
C3_LiveUntouchedBeforeSwap ==
  [][\A w \in Writers :
       (InSaveAtomic(w) /\ wpc'[w] # wpc[w] /\ ~Swapped(w))
         => live' = live]_vars

\* C3 witness: a saveAtomic invocation failed after it had staged its
\* document while a live document exists.
C3_Witness ==
  \E w \in Writers :
    /\ wpc[w] = "catch"
    /\ werr[w] = "EIO"
    /\ temp.st = "json"
    /\ live.st = "json"

\* The document the live slot holds is the argument of save() call n with a
\* checksum that verifies.
LiveHoldsSave(n) ==
  /\ live.st = "json"
  /\ live.val.tasks.v = submitted[n]
  /\ validateChecksum(live.val)

\* C5: when flush() resolves, the document of the latest save() is in the
\* live slot with a matching checksum, and no queued write is pending or
\* in progress.
C5_FlushWritesLatest ==
  [][(flushPc = "idle" /\ flushPc' = "resolved" /\ OnlySaves
        /\ Len(submitted) >= 1)
       => /\ LiveHoldsSave(Len(submitted))'
          /\ Drained']_vars

\* ------------------------------------------------------------------------
\* BrowserStorage: save, the debounce timer, saveImmediate, flush
\* ------------------------------------------------------------------------
\* depth of nested load() calls explored inside tryRestoreFromBackup
MaxDepth == 2

\* A timer callback or a flush() that has taken latestData, stamped
\* lastSync and awaits updateChecksum before it calls saveImmediate.
Job(kind, n, data) == [kind |-> kind, n |-> n, data |-> data]

\* this.saveQueue[this.saveQueue.length - 1]
LatestData == saveQueue[Len(saveQueue)]

\* save(data): push on saveQueue, clear the previous timeout, set a new
\* one; only the promise of this call is tied to the new timeout.
BrowserSave(data) ==
  /\ Len(submitted) < MaxSaves
  /\ submitted' = Append(submitted, data.tasks.v)
  /\ saveStatus' = Append(saveStatus, "pending")
  /\ saveQueue' = Append(saveQueue, Operation(Len(submitted) + 1, data))
  /\ saveTimeout' = "pending"
  /\ UNCHANGED <<live, backups, envVars, nodeVars, flushPc, restoreVars,
                 liveWrites, oneWindow, loadVars, createVars, jobs, lstack>>

\* The timeout lapses: the callback takes the latest queued document,
\* empties the queue, stamps lastSync and starts updateChecksum.
BrowserTimer ==
  /\ saveTimeout = "pending"
  /\ saveQueue # <<>>
  /\ saveTimeout' = "fired"
  /\ saveQueue' = <<>>
  /\ jobs' = jobs \cup
       { Job("timer", LatestData.n,
             [LatestData.data EXCEPT !.metadata.lastSync = now]) }
  /\ UNCHANGED <<live, backups, envVars, nodeVars, flushPc, restoreVars,
                 histVars, loadVars, createVars, lstack>>

\* flush(): clear the timeout; with a queued document, take the latest,
\* empty the queue, stamp lastSync and start updateChecksum.
BrowserFlush ==
  /\ flushPc = "idle"
  /\ saveTimeout' = "null"
  /\ IF saveQueue # <<>>
       THEN /\ saveQueue' = <<>>
            /\ jobs' = jobs \cup
                 { Job("flush", LatestData.n,
                       [LatestData.data EXCEPT !.metadata.lastSync = now]) }
            /\ flushPc' = "writing"
       ELSE /\ flushPc' = "resolved"
            /\ UNCHANGED <<saveQueue, jobs>>
  /\ UNCHANGED <<live, backups, envVars, nodeVars, restoreVars, histVars,
                 loadVars, createVars, lstack>>

\* The promise that a job settles: a timer callback settles the save()
\* call that set the timeout, a flush() settles itself.
JobSettles(j, outcome) ==
  IF j.kind = "timer"
    THEN /\ saveStatus' = [saveStatus EXCEPT ![j.n] = outcome]
         /\ UNCHANGED flushPc
    ELSE /\ flushPc' = outcome
         /\ UNCHANGED saveStatus

\* updateChecksum resolves and saveImmediate(dataWithChecksum) puts the
\* record 'main'; the put succeeds or fails.  Digests of crypto.subtle
\* complete in no fixed order; the fallback hash has no asynchronous step,
\* so its jobs finish in the order they started.
BrowserWrite(j) ==
  /\ j \in jobs
  /\ cryptoSubtle \/ \A k \in jobs : j.n <= k.n
  /\ jobs' = jobs \ {j}
  /\ \/ /\ NoFault
        /\ live' = Json(updateChecksum(j.data))
        /\ liveWrites' = Append(liveWrites,
             LiveWrite(j.kind, j.n, Json(j.data)))
        /\ JobSettles(j, "resolved")
     \/ /\ Fault
        /\ JobSettles(j, "rejected")
        /\ UNCHANGED <<live, liveWrites>>
  /\ UNCHANGED <<backups, now, corruptions, cryptoSubtle, nodeVars,
                 restoreVars, submitted, oneWindow, loadVars, createVars,
                 saveQueue, saveTimeout, lstack>>

\* restoreBackup(backupId) called by the application: get the record,
\* validate its schema, put it as 'main'.  A failing put rejects inside
\* the onsuccess handler, so the promise of restoreBackup never settles.
BrowserRestoreBackup(id) ==
  /\ rres = "none"
  /\ rid' = id
  /\ IF ~HasBackup(id)
       THEN /\ rres' = "notfound"
            /\ UNCHANGED <<live, liveWrites, faults>>
     ELSE IF ~validateSchema(BackupOf(id).val)
       THEN /\ rres' = "error"
            /\ UNCHANGED <<live, liveWrites, faults>>
     ELSE \/ /\ NoFault
             /\ live' = Json(BackupOf(id).val)
             /\ liveWrites' = Append(liveWrites,
                  LiveWrite("restore", 0, BackupOf(id)))
             /\ rres' = "ok"
          \/ /\ Fault
             /\ rres' = "hung"
             /\ UNCHANGED <<live, liveWrites>>
  /\ UNCHANGED <<backups, now, corruptions, cryptoSubtle, nodeVars, flushPc,
                 submitted, saveStatus, oneWindow, loadVars, createVars,
                 browserVars>>

\* ------------------------------------------------------------------------
\* BrowserStorage: load, tryRestoreFromBackup, createBackup
\* ------------------------------------------------------------------------
\* The load() at the current nesting level resolves with null or rejects:
\* the outermost call returns; a nested one was awaited inside the loop of
\* tryRestoreFromBackup, which goes on with its next candidate.
LevelEnds(result) ==
  IF lstack = <<>>
    THEN /\ Return(result)
         /\ UNCHANGED lstack
    ELSE /\ lpc' = "trying"
         /\ lcands' = Head(lstack)
         /\ lstack' = Tail(lstack)
         /\ UNCHANGED <<lcur, lres>>

\* load(): get 'main'; no record resolves null, a bad schema rejects, a
\* bad checksum enters tryRestoreFromBackup, a good record is returned
\* through every enclosing tryRestoreFromBackup.
BrowserLoadRead ==
  /\ lpc = "reading"
  /\ IF live.st = "absent"
       THEN LevelEnds(LoadResult("null", NoDoc,
                        IF lstack = <<>> THEN "firstRun" ELSE "exhausted"))
     ELSE IF ~validateSchema(live.val)
       THEN LevelEnds(LoadResult("error", NoDoc, "schema"))
     ELSE IF ~validateChecksum(live.val)
       THEN /\ lpc' = "listing"
            /\ UNCHANGED <<lcands, lcur, lres, lstack>>
     ELSE /\ Return(LoadResult("doc", live.val,
                      IF lstack = <<>> THEN "live" ELSE "recovered"))
          /\ lstack' = <<>>
  /\ UNCHANGED <<storeVars, envVars, queueVars, writerVars, cleanPending, cleanWarned, arg, ret, adapterVars,
                 flushPc, restoreVars, histVars, lcaller, lsnap, createVars,
                 saveQueue, saveTimeout, jobs>>

\* getAll() returns the records in key order; Array.sort is stable, so
\* equal timestamps keep that order.
KeyBefore(a, b) == a.id[2] < b.id[2]

\* backups.sort((a, b) => b.timestamp - a.timestamp) on the records
BrowserNewestFirst(set) ==
  { s \in [1..Cardinality(set) -> set] :
      /\ \A i, j \in DOMAIN s : i # j => s[i] # s[j]
      /\ \A i, j \in DOMAIN s :
           i < j => \/ s[i].ts > s[j].ts
                    \/ s[i].ts = s[j].ts /\ KeyBefore(s[i], s[j]) }

\* backups.sort((a, b) => a.timestamp - b.timestamp) on the records
BrowserOldestFirst(set) ==
  { s \in [1..Cardinality(set) -> set] :
      /\ \A i, j \in DOMAIN s : i # j => s[i] # s[j]
      /\ \A i, j \in DOMAIN s :
           i < j => \/ s[i].ts < s[j].ts
                    \/ s[i].ts = s[j].ts /\ KeyBefore(s[i], s[j]) }

\* tryRestoreFromBackup(): listBackups() and sort newest first.
BrowserRecoverList ==
  /\ lpc = "listing"
  /\ IF backups = {}
       THEN LevelEnds(LoadResult("null", NoDoc, "exhausted"))
       ELSE /\ \E sorted \in BrowserNewestFirst(backups) :
                 lcands' = [i \in DOMAIN sorted |-> sorted[i].id]
            /\ lpc' = "trying"
            /\ UNCHANGED <<lcur, lres, lstack>>
  /\ UNCHANGED <<storeVars, envVars, queueVars, writerVars, cleanPending, cleanWarned, arg, ret, adapterVars,
                 flushPc, restoreVars, histVars, lcaller, lsnap, createVars,
                 saveQueue, saveTimeout, jobs>>

\* The loop of tryRestoreFromBackup on the next candidate:
\* restoreBackup(backup.id) puts a record with a valid schema as 'main',
\* then load() is called again; a rejected restoreBackup skips the
\* candidate, one whose put fails never settles.
BrowserRecoverTry ==
  /\ lpc = "trying"
  /\ IF lcands = <<>>
       THEN /\ LevelEnds(LoadResult("null", NoDoc, "exhausted"))
            /\ UNCHANGED <<live, liveWrites, faults>>
     ELSE IF ~HasBackup(Head(lcands))
               \/ ~validateSchema(BackupOf(Head(lcands)).val)
       THEN /\ lcands' = Tail(lcands)
            /\ UNCHANGED <<lpc, lcur, lres, lstack, live, liveWrites, faults>>
     ELSE \/ /\ NoFault
             /\ Len(lstack) < MaxDepth
             /\ live' = Json(BackupOf(Head(lcands)).val)
             /\ liveWrites' = Append(liveWrites,
                  LiveWrite("recovery", 0, BackupOf(Head(lcands))))
             /\ lstack' = <<Tail(lcands)>> \o lstack
             /\ lcands' = <<>>
             /\ lpc' = "reading"
             /\ UNCHANGED <<lcur, lres>>
          \/ /\ Fault
             /\ lpc' = "hung"
             /\ UNCHANGED <<lcands, lcur, lres, lstack, live, liveWrites>>
  /\ UNCHANGED <<backups, now, corruptions, cryptoSubtle, nodeVars, flushPc,
                 restoreVars, submitted, saveStatus, oneWindow, lcaller,
                 lsnap, createVars, saveQueue, saveTimeout, jobs>>

\* The record that createBackup() puts: { ...data, id, metadata: {
\* ...data.metadata, lastBackup }, timestamp }.
BrowserBackupRecord(data, time) ==
  Backup(ManualBackupId(time), Json(BackupData(data, time)), time)

\* createBackup() after load(): without data it throws, otherwise it puts
\* the backup record.
BrowserCreateBackupWrite ==
  /\ cpc = "loading"
  /\ lpc = "returned"
  /\ lcaller = "createBackup"
  /\ lpc' = "idle"
  /\ lres' = NoResult
  /\ IF lres.kind # "doc"
       THEN /\ cpc' = "idle"
            /\ cres' = "error"
            /\ UNCHANGED backups
       ELSE /\ cpc' = "cleaning"
            /\ backups' = PutBackup(backups, BrowserBackupRecord(lres.val, now))
            /\ UNCHANGED cres
  /\ UNCHANGED <<live, envVars, nodeVars, flushPc, restoreVars, histVars,
                 lcaller, lcands, lcur, lsnap, browserVars>>

\* Records that the loop of cleanOldBackups deletes.
BrowserEvicted(sorted, time) ==
  { sorted[i].id : i \in
      { k \in DOMAIN sorted :
          \/ sorted[k].ts < time - RetentionTicks
          \/ k - 1 < Len(sorted) - MaxBackups } }

\* The onsuccess handler of the put awaits cleanOldBackups() and resolves
\* with the identifier.
BrowserCreateBackupClean ==
  /\ cpc = "cleaning"
  /\ cpc' = "idle"
  /\ cres' = "ok"
  /\ \E sorted \in BrowserOldestFirst(backups) :
       backups' = { b \in backups : b.id \notin BrowserEvicted(sorted, now) }
  /\ UNCHANGED <<live, envVars, nodeVars, flushPc, restoreVars, histVars,
                 loadVars, browserVars>>

\* A stored record altered outside this layer (records are structured
\* values, never unparseable text).
BrowserCorruptLive ==
  /\ corruptions < MaxCorrupt
  /\ live.st = "json"
  /\ corruptions' = corruptions + 1
  /\ \E c \in Corrupted(live) \ {Garbage} : live' = c
  /\ UNCHANGED <<backups, now, faults, cryptoSubtle, nodeVars, flushPc,
                 restoreVars, histVars, loadVars, createVars, browserVars>>

\* ------------------------------------------------------------------------
\* BrowserStorage: the specifications
\* ------------------------------------------------------------------------
\* A new database: no 'main' record, no backup records.
InitBrowser ==
  /\ cryptoSubtle \in BOOLEAN
  /\ hasWindow = TRUE
  /\ live = Absent
  /\ backups = {}
  /\ InitProcess

\* save, the debounce timer and flush.
NextBrowser ==
  \/ \E data \in SaveInputs : BrowserSave(data)
  \/ BrowserTimer
  \/ BrowserFlush
  \/ \E j \in jobs : BrowserWrite(j)
  \/ Tick

SpecBrowser == InitBrowser /\ [][NextBrowser]_vars

\* A database as earlier saves left it: no record, or a 'main' record.
InitBrowserLoad ==
  /\ cryptoSubtle \in BOOLEAN
  /\ hasWindow = TRUE
  /\ live \in {Absent} \cup { Json(SavedDoc(body, 1)) : body \in 1..NumBodies }
  /\ backups = {}
  /\ InitProcess

\* load, recovery, createBackup and restoreBackup on a database that is not
\* being saved to.
NextBrowserLoad ==
  \/ Load
  \/ BrowserLoadRead
  \/ BrowserRecoverList
  \/ BrowserRecoverTry
  \/ CreateBackup
  \/ BrowserCreateBackupWrite
  \/ BrowserCreateBackupClean
  \/ \E id \in RestoreIds : BrowserRestoreBackup(id)
  \/ BrowserCorruptLive
  \/ Tick

SpecBrowserLoad == InitBrowserLoad /\ [][NextBrowserLoad]_vars

\* ------------------------------------------------------------------------
\* NodeStorage: load, recovery and createBackup
\* ------------------------------------------------------------------------
\* Data directories that earlier runs can leave: the prior ones, and the
\* live file alone after a single save.
LoadStores ==
  PriorStores \cup
    { [live |-> Text(SavedDoc(body, 1)), backups |-> {}] : body \in 1..NumBodies }

InitNodeLoad ==
  /\ cryptoSubtle \in BOOLEAN
  /\ hasWindow = FALSE
  /\ \E store \in LoadStores :
       /\ live = store.live
       /\ backups = store.backups
  /\ InitProcess

NextNodeLoad ==
  \/ Load
  \/ LoadRead
  \/ RecoverList
  \/ RecoverTry
  \/ RecoverOpen
  \/ RecoverPromote
  \/ CreateBackup
  \/ CreateBackupWrite
  \/ CreateBackupClean
  \/ CorruptLive
  \/ CorruptBackup
  \/ Tick

SpecNodeLoad == InitNodeLoad /\ [][NextNodeLoad]_vars

\* ------------------------------------------------------------------------
\* Properties of the stored backups, of ordering and of recovery
\* ------------------------------------------------------------------------
\* The stored content of a backup, without its identifier and time.
ContentOf(b) == [st |-> b.st, val |-> b.val]

\* C4: when a saveAtomic invocation replaces an existing live document, a
\* verbatim copy of the content being replaced is among the backups at the
\* moment of the replacement.
C4_RecoveryPointBeforeChange ==
  [][\A w \in Writers :
       (Swapped(w) /\ live' # live /\ live.st # "absent")
         => \E b \in backups : ContentOf(b) = live]_vars

\* C6: the writes to the live slot happen in the order of their save()
\* calls, and once no timer, digest or write is pending the live document
\* is the one of the last save() that was written.
C6_SubmissionOrder ==
  /\ \A i, j \in DOMAIN liveWrites :
       i < j => liveWrites[i].n < liveWrites[j].n
  /\ (jobs = {} /\ saveQueue = <<>> /\ liveWrites # <<>>)
       => \A i \in DOMAIN liveWrites :
            liveWrites[i].n <= liveWrites[Len(liveWrites)].n

\* The identifiers in a sequence of candidates.
Ids(cands) == { cands[i] : i \in DOMAIN cands }

\* C7: recovery takes the stored backups newest first, each in turn: the
\* candidate it tries next inside a nested load() is one that the enclosing
\* recovery has not tried yet.
C7_EachBackupInTurn ==
  (lpc = "trying" /\ lstack # <<>> /\ lcands # <<>>)
    => Head(lcands) \in Ids(Head(lstack))

\* C8: a load() that returns because no backup passed recovery hands its
\* caller something other than what a first run (no live document) gets.
C8_ExhaustedDistinguishable ==
  (lpc = "returned" /\ lres.via = "exhausted")
    => <<lres.kind, lres.val>> # <<"null", NoDoc>>

\* C9: a write that recovery makes to the live slot puts there a document
\* that passes validateSchema and validateChecksum.
C9_PromotesOnlyVerified ==
  [][(liveWrites' # liveWrites
        /\ liveWrites'[Len(liveWrites')].by = "recovery")
       => /\ validateSchema(live'.val)
          /\ validateChecksum(live'.val)]_vars

\* The documents in the live slot and in the backups that this layer put
\* there (not altered from outside).
StoredDocuments ==
  { c \in {live} \cup { ContentOf(b) : b \in backups } :
      c.st = "json" /\ ~c.val.ext }

\* C10: every document this layer stored carries the checksum of its own
\* content.
C10_ChecksumInvariant ==
  \A c \in StoredDocuments : validateChecksum(c.val)

\* ------------------------------------------------------------------------
\* Properties of createBackup, restoreBackup and retention
\* ------------------------------------------------------------------------
\* C11: the snapshot that createBackup() stores is equal, metadata
\* included, to the live document that its load() returned.
C11_SnapshotFidelity ==
  [][(cpc = "loading" /\ cpc' = "cleaning")
       => \E b \in backups' :
            /\ b.id = ManualBackupId(now)
            /\ b.val = lres.val]_vars

\* restoreBackup on data directories whose backups may have been damaged.
NextNodeRestore ==
  \/ \E id \in RestoreIds : RestoreBackup(id)
  \/ \E w \in Writers : StageWrite(w)
  \/ \E w \in Writers : StageCheck(w)
  \/ \E w \in Writers : ReadCurrent(w)
  \/ \E w \in Writers : BackupWrite(w)
  \/ \E w \in Writers : Swap(w)
  \/ \E w \in Writers : Catch(w)
  \/ CleanOldBackups
  \/ CorruptBackup
  \/ CorruptLive
  \/ Tick

SpecNodeRestore == InitNodeLoad /\ [][NextNodeRestore]_vars

\* The step in which restoreBackup(rid') is called.
RestoreCalled ==
  /\ rres = "none"
  /\ wpc["restore"] = "idle"
  /\ rres' # "none" \/ wpc'["restore"] # "idle"

\* The backup file of this identifier does not parse or fails
\* validateSchema.
Damaged(id) ==
  \/ BackupOf(id).st = "garbage"
  \/ ~validateSchema(BackupOf(id).val)

\* C12: restoreBackup of an identifier without a backup fails as "not
\* found", of a backup that does not parse or fails validateSchema fails
\* with an error, and in both cases the live file and the backups stay as
\* they were.
C12_RestoreFailure ==
  [][RestoreCalled =>
       /\ ~HasBackup(rid')
            => rres' = "notfound" /\ live' = live /\ backups' = backups
       /\ (HasBackup(rid') /\ Damaged(rid'))
            => rres' = "error" /\ live' = live /\ backups' = backups]_vars

\* C12 witness: a restoreBackup of a damaged backup has failed.
C12_Witness ==
  /\ rres = "error"
  /\ wpc["restore"] = "idle"
  /\ faults = 0
  /\ HasBackup(rid)
  /\ Damaged(rid)

\* The snapshots of a set in the order of their creation, oldest first
\* (snapshots of the same instant in any order).
ByCreation(set) ==
  { s \in [1..Cardinality(set) -> set] :
      /\ \A i, j \in DOMAIN s : i # j => s[i] # s[j]
      /\ \A i, j \in DOMAIN s : i < j => s[i].ts <= s[j].ts }

\* The snapshots that are among the MaxBackups newest and not older than
\* the retention horizon at the given time.
Retained(sorted, time) ==
  { sorted[k] : k \in
      { i \in DOMAIN sorted :
          /\ i > Len(sorted) - MaxBackups
          /\ sorted[i].ts >= time - RetentionTicks } }

\* C13: the sweep at the end of createBackup() leaves exactly the
\* snapshots that are both within the retention horizon and among the
\* MaxBackups newest.
C13_SweepResult ==
  [][(cpc = "cleaning" /\ cpc' = "idle")
       => \E sorted \in ByCreation(backups) :
            backups' = Retained(sorted, now)]_vars

\* ------------------------------------------------------------------------
\* BrowserStorage: saving to a database that holds an old backup
\* ------------------------------------------------------------------------
\* An instant of an earlier session, before the retention horizon of the
\* moment this process starts.
LongAgo == 1 - RetentionTicks - 1

\* A database in which an earlier session saved a document and called
\* createBackup().
InitBrowserKept ==
  /\ cryptoSubtle \in BOOLEAN
  /\ hasWindow = TRUE
  /\ \E body \in 1..NumBodies :
       /\ live = Json(SavedDoc(body, LongAgo))
       /\ backups = { BrowserBackupRecord(SavedDoc(body, LongAgo), LongAgo) }
  /\ InitProcess

SpecBrowserKept == InitBrowserKept /\ [][NextBrowser]_vars

\* C14: once a save has been written and nothing is pending, the sweep that
\* follows the write has left at most MaxBackups snapshots and none older
\* than the retention horizon of the moment of the write.
C14_SweepAfterEveryWrite ==
  (liveWrites # <<>> /\ jobs = {} /\ live.st = "json")
    => /\ Cardinality(backups) <= MaxBackups
       /\ \A b \in backups :
            b.ts >= live.val.metadata.lastSync - RetentionTicks

\* ------------------------------------------------------------------------
\* BrowserStorage: clear
\* ------------------------------------------------------------------------
\* clear() has been called (one call is explored).
Cleared == \E i \in DOMAIN liveWrites : liveWrites[i].by = "clear"

\* clear(): one transaction clears the object store of 'main' and the
\* object store of the backups; saveQueue and saveTimeout are not touched.
\* The history records how many save() calls had been submitted.
BrowserClear ==
  /\ ~Cleared
  /\ live' = Absent
  /\ backups' = {}
  /\ liveWrites' = Append(liveWrites,
       LiveWrite("clear", Len(submitted), Absent))
  /\ UNCHANGED <<envVars, nodeVars, flushPc, restoreVars, submitted,
                 saveStatus, oneWindow, loadVars, createVars, browserVars>>

NextBrowserClear ==
  \/ \E data \in SaveInputs : BrowserSave(data)
  \/ BrowserTimer
  \/ BrowserFlush
  \/ \E j \in jobs : BrowserWrite(j)
  \/ BrowserClear
  \/ Tick

SpecBrowserClear == InitBrowserKept /\ [][NextBrowserClear]_vars

\* C15: after clear() has resolved, and as long as no save() has been
\* submitted since, there is no live document and no backup.
C15_ClearIsFinal ==
  \A i \in DOMAIN liveWrites :
    (liveWrites[i].by = "clear" /\ liveWrites[i].n = Len(submitted))
      => live.st = "absent" /\ backups = {}

\* ------------------------------------------------------------------------
\* Properties of persist and load
\* ------------------------------------------------------------------------
\* C16: when the saveAtomic of a save() call reports success, the live
\* file holds the document of that call, with a checksum that verifies.
C16_PersistRoundTrip ==
  [][\A n \in DOMAIN saveStatus :
       (saveStatus[n] = "pending" /\ saveStatus'[n] = "resolved")
         => LiveHoldsSave(n)']_vars

\* The live slot holds nothing that load() can return as it is.
LiveFails ==
  \/ live.st # "json"
  \/ ~validateSchema(live.val)
  \/ ~validateChecksum(live.val)

\* C17: when load() finds a live document that is absent, unparseable,
\* structurally invalid or fails its checksum, and backups are stored, it
\* goes on to the recovery chain.
C17_RecoveryInEveryFailureCase ==
  [][(lpc = "reading" /\ lpc' # "reading" /\ lstack = <<>>
        /\ LiveFails /\ backups # {})
       => lpc' = "listing"]_vars

\* C18: a document that load() returns passes validateSchema and
\* validateChecksum and is, at that moment, the content of the live slot
\* or of a stored backup.
C18_ReturnsVerifiedStoredContent ==
  [][(lpc # "returned" /\ lpc' = "returned" /\ lres'.kind = "doc")
       => /\ validateSchema(lres'.val)
          /\ validateChecksum(lres'.val)
          /\ \/ live'.st = "json" /\ live'.val = lres'.val
             \/ \E b \in backups' : b.st = "json" /\ b.val = lres'.val]_vars

\* C18 witness: load() has returned a document that it recovered from a
\* backup.
C18_Witness ==
  /\ lpc = "returned"
  /\ lres.kind = "doc"
  /\ lres.via = "recovered"

\* ------------------------------------------------------------------------
\* BrowserStorage: saving documents that fail validateSchema
\* ------------------------------------------------------------------------
\* Documents a caller may pass that fail validateSchema: the version is a
\* string, or tasks is not an array.
InvalidInputs ==
  { [d EXCEPT !.version = JsVal("string", 1)] : d \in SaveInputs } \cup
  { [d EXCEPT !.tasks.t = "object"] : d \in SaveInputs }

NextBrowserAnyInput ==
  \/ \E data \in SaveInputs \cup InvalidInputs : BrowserSave(data)
  \/ BrowserTimer
  \/ BrowserFlush
  \/ \E j \in jobs : BrowserWrite(j)

SpecBrowserAnyInput == InitBrowser /\ [][NextBrowserAnyInput]_vars

\* C19: the write of a document that fails validateSchema is rejected and
\* leaves the live record and the backups as they were.
C19_InvalidRejectedWithoutEffect ==
  [][\A j \in jobs :
       (j \notin jobs' /\ ~validateSchema(j.data))
         => /\ live' = live
            /\ backups' = backups
            /\ j.kind = "timer" => saveStatus'[j.n] = "rejected"
            /\ j.kind = "flush" => flushPc' = "rejected"]_vars

\* ------------------------------------------------------------------------
\* The two backends compared
\* ------------------------------------------------------------------------
\* C20: on the same stored content the two backends give load() the same
\* outcome: every step that BrowserStorage.load takes on reading the live
\* record is the step that NodeStorage.load takes on reading a live file
\* with that content.
C20_BackendEquivalence ==
  [][(lstack = <<>> /\ BrowserLoadRead) => LoadRead]_vars

\* ------------------------------------------------------------------------
\* Properties of concurrent reads, identifiers and listing
\* ------------------------------------------------------------------------
\* C21: at every moment of a write or a promotion, what a load() reading
\* the live file obtains is a complete document, the old one or the new
\* one.
C21_LoadSeesWholeDocument ==
  live.st # "partial"

\* A step that stores a snapshot: the automatic copy of saveAtomic or the
\* file of createBackup.
SnapshotStored ==
  \/ \E w \in Writers : BackupWrite(w) /\ backups' # backups
  \/ CreateBackupWrite /\ backups' # backups

\* C22: every snapshot, automatic or manual, is stored under an identifier
\* not yet present among the backups, so storing it neither replaces nor
\* removes an earlier snapshot, whatever the timing of the calls.
C22_FreshSnapshotIdentifiers ==
  [][SnapshotStored =>
       /\ backups \subseteq backups'
       /\ \A b \in backups' \ backups : ~HasBackup(b.id)]_vars

\* Position of an identifier's prefix in the order of strings: "backup-"
\* precedes "studioflow-" ('b' < 's').
PrefixRank(prefix) == IF prefix = "backup" THEN 1 ELSE 2

\* Lexicographic order of two identifiers `${prefix}-${timestamp}`: by the
\* prefix first, and by the zero-padded timestamp for equal prefixes.
LexBefore(a, b) ==
  \/ PrefixRank(a[1]) < PrefixRank(b[1])
  \/ a[1] = b[1] /\ a[2] < b[2]

\* C23: of any two stored snapshots, automatic or manual, the one created
\* earlier has the lexicographically smaller identifier.
C23_IdentifierOrderIsCreationOrder ==
  \A a, b \in backups : a.ts < b.ts => LexBefore(a.id, b.id)

\* C24: listBackups() returns one entry for every snapshot held in the
\* backup store, those with corrupt content included, and nothing else.
C24_ListsEverySnapshot ==
  { b.id : b \in listBackups } = { b.id : b \in backups }

\* ------------------------------------------------------------------------
\* Properties of the retention cleanup and of the write queue
\* ------------------------------------------------------------------------
\* C25: a retention cleanup that fails never turns into a failure of the
\* write that started it: the failing step changes no outcome of a save()
\* or restoreBackup() and not the live file, and every save() whose
\* document was written stays resolved.
C25_CleanupFailureNotPropagated ==
  [][(CleanOldBackups /\ faults' # faults) =>
       /\ live' = live
       /\ rres' = rres
       /\ saveStatus' = saveStatus
       /\ \A i \in DOMAIN liveWrites :
            liveWrites[i].by = "queue"
              => saveStatus'[liveWrites[i].n] = "resolved"]_vars

\* A cleanup has failed after the write of a save(): that save() is
\* resolved and the live file holds its document.
C25_Witness ==
  /\ cleanWarned
  /\ liveWrites # <<>>
  /\ liveWrites[Len(liveWrites)].by = "queue"
  /\ saveStatus[liveWrites[Len(liveWrites)].n] = "resolved"
  /\ live.st = "json"
  /\ live.val.tasks.v = liveWrites[Len(liveWrites)].body

\* ------------------------------------------------------------------------
\* storage-utils on its own: texts, parsing, and calls of the functions
\* ------------------------------------------------------------------------
\* Whitespace bytes of a JSON text.
Newline == 0 - 1
Space == 0 - 2
Whitespace == {Newline, Space}

\* JSON.stringify(data, null, 2): the text of JSON.stringify(data) with a
\* line break and indentation before every key, and a final line break.
RECURSIVE PrettyFields(_, _)
PrettyFields(data, keys) ==
  IF keys = <<>> THEN <<>>
  ELSE <<Newline, Space>> \o StringifyField(data, Head(keys))
         \o PrettyFields(data, Tail(keys))

PrettyText(data) == PrettyFields(data, data.keys) \o <<Newline>>

\* The key whose name has this code, "" when there is none.
KeyOf(code) ==
  IF \E i \in DOMAIN SchemaKeys : KeyCode(SchemaKeys[i]) = code
    THEN SchemaKeys[CHOOSE i \in DOMAIN SchemaKeys :
                      KeyCode(SchemaKeys[i]) = code]
    ELSE ""

\* The runtime tag with this code.
TagOf(code) ==
  CASE code = 1 -> "number"
    [] code = 2 -> "string"
    [] code = 3 -> "array"
    [] code = 4 -> "object"
    [] OTHER -> "null"

Undefined == JsVal("undefined", 0)

\* The object {} as JSON.parse starts it: no key is present.
EmptyObject ==
  [t |-> "object",
   keys |-> <<>>,
   version |-> Undefined,
   clients |-> Undefined,
   projects |-> Undefined,
   tasks |-> Undefined,
   config |-> Undefined,
   metadata |-> [t |-> "undefined", lastSync |-> EmptyTime,
                 lastBackup |-> EmptyTime, checksum |-> EmptyChecksum],
   ext |-> FALSE]

\* object[key] = value: a new key goes to the end of the key order, a
\* repeated one keeps its place and takes the later value.
SetKey(data, key, value) ==
  [data EXCEPT
     ![key] = value,
     !.keys = IF \E i \in DOMAIN data.keys : data.keys[i] = key
                THEN data.keys ELSE Append(data.keys, key)]

\* JSON.parse on the text without its whitespace, from position i on.
RECURSIVE ParseFields(_, _, _)
ParseFields(s, i, data) ==
  IF i > Len(s) THEN Json(data)
  ELSE IF KeyOf(s[i]) = "" THEN Garbage
  ELSE IF KeyOf(s[i]) = "metadata" THEN
    IF i + 3 > Len(s) THEN Garbage
    ELSE IF s[i + 3] < 0 \/ i + 3 + s[i + 3] > Len(s) THEN Garbage
    ELSE ParseFields(s, i + 4 + s[i + 3],
           SetKey(data, "metadata",
                  Metadata(s[i + 1], s[i + 2],
                           SubSeq(s, i + 4, i + 3 + s[i + 3]))))
  ELSE IF i + 1 > Len(s) THEN Garbage
  ELSE IF s[i + 1] = TagCode("null")
    THEN ParseFields(s, i + 2, SetKey(data, KeyOf(s[i]), JsVal("null", 0)))
  ELSE IF s[i + 1] \notin 1..4 \/ i + 2 > Len(s) THEN Garbage
  ELSE ParseFields(s, i + 3,
         SetKey(data, KeyOf(s[i]), JsVal(TagOf(s[i + 1]), s[i + 2])))

\* JSON.parse(text): whitespace between tokens is skipped; a text that is
\* no JSON throws SyntaxError (Garbage).
JsonParse(text) ==
  ParseFields(SelectSeq(text, LAMBDA c : c \notin Whitespace), 1, EmptyObject)

\* The keys that precede the given key.
RECURSIVE KeysBefore(_, _)
KeysBefore(keys, key) ==
  IF keys = <<>> \/ Head(keys) = key THEN <<>>
  ELSE <<Head(keys)>> \o KeysBefore(Tail(keys), key)

\* The positions of PrettyText(data) that hold metadata.checksum.
ChecksumPositions(data) ==
  LET start == Len(PrettyFields(data, KeysBefore(data.keys, "metadata"))) + 5
  IN (start + 1)..(start + 1 + Len(data.metadata.checksum))

\* Values a changed byte can take.
ByteValues == Whitespace \cup 0..NumBodies

\* Values handed to validateSchema: objects whose fields have the right
\* and the wrong types, and values that are no objects.
SchemaInputs ==
  { [DatabaseSchema(1, Metadata(EmptyTime, EmptyTime, EmptyChecksum)) EXCEPT
       !.version = version, !.clients.t = clients, !.projects.t = projects,
       !.tasks.t = tasks, !.config = config, !.metadata.t = metadata] :
      version \in { JsVal("number", 1), JsVal("nan", 0), JsVal("string", 1),
                    Undefined },
      clients \in {"array", "object"},
      projects \in {"array", "null"},
      tasks \in {"array", "string"},
      config \in { JsVal("object", 0), JsVal("array", 0), JsVal("null", 0),
                   Undefined },
      metadata \in {"object", "array", "null", "undefined"} }
  \cup { [NoDoc EXCEPT !.t = top] :
           top \in {"null", "undefined", "string", "number"} }

\* Documents handed to updateChecksum and validateChecksum: without a
\* checksum, or carrying one that is out of date.
DigestInputs ==
  { DatabaseSchema(body, Metadata(sync, EmptyTime, sum)) :
      body \in 1..NumBodies, sync \in 0..MaxTime,
      sum \in { EmptyChecksum, <<1>> } }

\* The orders in which the keys of a document may have been inserted:
\* the declared one, and those with two neighbouring keys exchanged.
KeyOrders ==
  { [i \in DOMAIN SchemaKeys |->
       IF i = k THEN SchemaKeys[k + 1]
       ELSE IF i = k + 1 THEN SchemaKeys[k]
       ELSE SchemaKeys[i]] : k \in 1..(Len(SchemaKeys) - 1) }
  \cup { SchemaKeys }

\* A document on which the callers use the checksum functions.
Digestible(data) == validateSchema(data) /\ data.metadata.t = "object"

utilFrame == <<storeVars, envVars, queueVars, writerVars, cleanPending,
               cleanWarned, flushPc, restoreVars, histVars, loadVars,
               createVars, browserVars, adapterVars>>

\* validateSchema(arg)
ValidateSchemaCall ==
  /\ ret' = Returned("validateSchema", NoDoc, validateSchema(arg), EmptyChecksum)
  /\ UNCHANGED <<arg, utilFrame>>

\* updateChecksum(arg)
UpdateChecksumCall ==
  /\ Digestible(arg)
  /\ ret' = Returned("updateChecksum", updateChecksum(arg), TRUE, EmptyChecksum)
  /\ UNCHANGED <<arg, utilFrame>>

\* validateChecksum(arg)
ValidateChecksumCall ==
  /\ Digestible(arg)
  /\ ret' = Returned("validateChecksum", NoDoc, validateChecksum(arg),
                      EmptyChecksum)
  /\ UNCHANGED <<arg, utilFrame>>

\* The document updateChecksum returned is written and read back:
\* JSON.parse(JSON.stringify(data, null, 2)).
StoreAndReload ==
  /\ ret.fn = "updateChecksum"
  /\ arg' = [JsonParse(PrettyText(ret.val)).val EXCEPT !.ext = ret.val.ext]
  /\ ret' = NoReturn
  /\ UNCHANGED utilFrame

\* The same content in an object whose keys were inserted in another
\* order, and calculateChecksum of it. A document is changed once, in its
\* key order or in a byte of its text.
Reorder ==
  /\ Digestible(arg)
  /\ arg.keys = SchemaKeys
  /\ ~arg.ext
  /\ \E keys \in KeyOrders \ {SchemaKeys} :
       arg' = [arg EXCEPT !.keys = keys]
  /\ ret' = Returned("calculateChecksum", NoDoc, TRUE, calculateChecksum(arg'))
  /\ UNCHANGED utilFrame

\* One byte of the stored text of a verified document, outside the
\* checksum, takes another value, and the text is parsed again.
ByteChange ==
  /\ Digestible(arg)
  /\ validateChecksum(arg)
  /\ ~arg.ext
  /\ arg.keys = SchemaKeys
  /\ JsonParse(PrettyText(arg)) = Json(arg)
  /\ \E i \in DOMAIN PrettyText(arg) \ ChecksumPositions(arg) :
       \E byte \in ByteValues \ {PrettyText(arg)[i]} :
         LET parsed == JsonParse([PrettyText(arg) EXCEPT ![i] = byte])
         IN IF parsed.st = "json"
              THEN /\ arg' = [parsed.val EXCEPT !.ext = TRUE]
                   /\ ret' = NoReturn
              ELSE /\ ret' = Returned("JSON.parse", NoDoc, FALSE, EmptyChecksum)
                   /\ UNCHANGED arg
  /\ UNCHANGED utilFrame

InitUtils ==
  /\ cryptoSubtle \in BOOLEAN
  /\ hasWindow = FALSE
  /\ live = Absent
  /\ backups = {}
  /\ InitIdle
  /\ arg \in SchemaInputs \cup DigestInputs
  /\ ret = NoReturn

NextUtils ==
  \/ ValidateSchemaCall
  \/ UpdateChecksumCall
  \/ ValidateChecksumCall
  \/ StoreAndReload
  \/ Reorder
  \/ ByteChange

SpecUtils == InitUtils /\ [][NextUtils]_vars

C27_ChecksumSensitivity ==
  [][(ByteChange /\ arg'.ext) =>
       ~(validateSchema(arg') /\ validateChecksum(arg'))]_vars

\* C28: two documents with the same fields and values whose keys are
\* enumerated in different orders have the same digest, and validateChecksum
\* answers the same for both.
C28_DigestOrderIndependent ==
  [][Reorder =>
       /\ ret'.sum = calculateChecksum(arg)
       /\ validateChecksum(arg') = validateChecksum(arg)]_vars

\* A value that is a document in the sense of the contract: version is a
\* number, the three collections are arrays, config and metadata are
\* objects that are no arrays.
StructuredDocument(data) ==
  /\ data.t = "object"
  /\ TypeOf(data.version) = "number"
  /\ IsArray(data.clients) /\ IsArray(data.projects) /\ IsArray(data.tasks)
  /\ data.config.t = "object"
  /\ data.metadata.t = "object"

\* C29: validateSchema returns true exactly for the values whose version is
\* a number, whose clients, projects and tasks are arrays and whose config
\* and metadata are objects and no arrays; for every other value it
\* returns false.
C29_ValidateExactly ==
  [][ValidateSchemaCall =>
       ret'.ok = StructuredDocument(arg)]_vars

\* The save() with this submission number is rejected in this step.
Rejected(n) == saveStatus[n] = "pending" /\ saveStatus'[n] = "rejected"

\* C30: the queued writes run one after the other, each settled before the
\* next starts; a write that fails rejects the promise of its own save()
\* and no other, does not change the live file, and the next queued write
\* is started at once.
C30_QueueResilience ==
  [][/\ \A n \in DOMAIN saveStatus' :
          n < wn' => saveStatus'[n] # "pending"
     /\ \A n \in DOMAIN saveStatus :
          Rejected(n) =>
            /\ n = wn
            /\ \A k \in DOMAIN saveStatus \ {n} :
                 saveStatus'[k] = saveStatus[k]
            /\ rres' = rres
            /\ live' = live
            /\ writeQueue # <<>> =>
                 /\ wn' = Head(writeQueue).n
                 /\ wpc'["queue"] = "debounce"
                 /\ writeQueue' = Tail(writeQueue)
            /\ writeQueue = <<>> => ~isProcessing']_vars

\* A save() was rejected and a save() queued behind it has been written.
C30_Witness ==
  \E n, k \in DOMAIN saveStatus :
    /\ n < k
    /\ saveStatus[n] = "rejected"
    /\ saveStatus[k] = "resolved"
    /\ \E i \in DOMAIN liveWrites :
         liveWrites[i].by = "queue" /\ liveWrites[i].n = k

\* ------------------------------------------------------------------------
\* Termination: flush(), load(), the promises of save()
\* ------------------------------------------------------------------------
\* The steps NodeStorage takes by itself once save() has been called: the
\* debounce timer fires and the I/O of saveAtomic and of the cleanup
\* completes.
QueueProgress ==
  \/ DebounceLapse
  \/ StageWrite("queue")
  \/ StageCheck("queue")
  \/ ReadCurrent("queue")
  \/ BackupWrite("queue")
  \/ Swap("queue")
  \/ Catch("queue")
  \/ CleanOldBackups

\* save() and flush() on NodeStorage, without restoreBackup.
NextNodeFlush ==
  \/ \E data \in SaveInputs : Save(data)
  \/ DebounceLapse
  \/ StageWrite("queue")
  \/ StageCheck("queue")
  \/ ReadCurrent("queue")
  \/ BackupWrite("queue")
  \/ Swap("queue")
  \/ Catch("queue")
  \/ CleanOldBackups
  \/ Flush
  \/ FlushSpin

\* Timers that are due fire and started I/O completes whenever the event
\* loop gets to run them.
SpecNodeFlush ==
  InitNode /\ [][NextNodeFlush]_vars /\ WF_vars(QueueProgress)

\* C31: every call of flush() eventually resolves, also when it is made
\* while one queued write waits out its debounce delay and another write
\* waits in the queue.
C31_FlushTerminates ==
  (flushPc = "spin") ~> (flushPc = "resolved")

\* The steps of a BrowserStorage.load() in progress: its IndexedDB requests
\* succeed and its awaits resume.
BrowserLoadProgress ==
  /\ \/ BrowserLoadRead
     \/ BrowserRecoverList
     \/ BrowserRecoverTry
  /\ NoFault

SpecBrowserLoadFair ==
  InitBrowserLoad /\ [][NextBrowserLoad]_vars /\ WF_vars(BrowserLoadProgress)

BrowserSaveProgress ==
  \/ BrowserTimer
  \/ \E j \in jobs : BrowserWrite(j)

SpecBrowserFair ==
  InitBrowser /\ [][NextBrowser]_vars /\ WF_vars(BrowserSaveProgress)

\* C33: the promise of every save() call is eventually resolved or
\* rejected, also when a later save() in the same debounce window or a
\* flush() took its document over.
C33_EverySavePromiseSettles ==
  \A n \in 1..MaxSaves :
    (Len(saveStatus) >= n /\ saveStatus[n] = "pending")
      ~> (Len(saveStatus) >= n /\ saveStatus[n] # "pending")


\* ------------------------------------------------------------------------
\* NodeStorage: manual backup, saves, restore and load together
\* ------------------------------------------------------------------------
\* The application uses the adapter sequentially: it takes one manual
\* backup, saves after createBackup() has returned, awaiting each save(),
\* calls restoreBackup() when the saves it made are written, and calls
\* load() when restoreBackup() has returned, each time after the sweep
\* that the last write started has ended.
CreateBackupFirst ==
  /\ cres = "none"
  /\ rres = "none"
  /\ CreateBackup

SaveAfterBackup(data) ==
  /\ cres = "ok"
  /\ wpc["restore"] = "idle"
  /\ lpc \in {"idle", "returned"}
  /\ Drained
  /\ cleanPending = 0
  /\ Save(data)

RestoreAfterSaves(id) ==
  /\ Drained
  /\ cleanPending = 0
  /\ cpc = "idle"
  /\ RestoreBackup(id)

LoadAfterRestore ==
  /\ rres # "none"
  /\ wpc["restore"] = "idle"
  /\ cleanPending = 0
  /\ Load

\* No storage operation fails in this scenario, so saveAtomic never
\* reaches its catch block.
NextNodeRoundTrip ==
  \/ CreateBackupFirst
  \/ LoadRead
  \/ CreateBackupWrite
  \/ CreateBackupClean
  \/ \E data \in SaveInputs : SaveAfterBackup(data)
  \/ DebounceLapse
  \/ \E w \in Writers : StageWrite(w) /\ NoFault
  \/ \E w \in Writers : StageCheck(w) /\ NoFault
  \/ \E w \in Writers : ReadCurrent(w) /\ NoFault
  \/ \E w \in Writers : BackupWrite(w) /\ NoFault
  \/ \E w \in Writers : Swap(w) /\ NoFault
  \/ \E id \in RestoreIds : RestoreAfterSaves(id)
  \/ CleanOldBackups /\ NoFault
  \/ LoadAfterRestore
  \/ RecoverList
  \/ RecoverTry /\ NoFault
  \/ RecoverOpen /\ NoFault
  \/ RecoverPromote /\ NoFault
  \/ Tick

SpecNodeRoundTrip == InitNode /\ [][NextNodeRoundTrip]_vars

\* The identifier was returned by a createBackup().
IsManualId(id) == \E time \in 1..MaxTime + 1 : id = ManualBackupId(time)

\* restoreBackup(rid) of a snapshot taken by createBackup() has succeeded,
\* its write is the last one to the live file and no storage operation
\* has failed.
RestoredManual ==
  /\ faults = 0
  /\ rres = "ok"
  /\ wpc["restore"] = "idle"
  /\ IsManualId(rid)
  /\ HasBackup(rid)
  /\ liveWrites # <<>>
  /\ liveWrites[Len(liveWrites)].by = "restore"

\* C34: after a successful restoreBackup(id) of a snapshot that
\* createBackup() took of document D, load() returns the live document
\* without entering recovery, and it has D's clients, projects, tasks and
\* config.
C34_BackupRestoreRoundTrip ==
  [][(RestoredManual /\ lcaller = "load" /\ lpc = "reading"
        /\ lpc' # "reading")
       => /\ lpc' = "returned"
          /\ lres'.kind = "doc"
          /\ lres'.via = "live"
          /\ lres'.val.clients = BackupOf(rid).val.clients
          /\ lres'.val.projects = BackupOf(rid).val.projects
          /\ lres'.val.tasks = BackupOf(rid).val.tasks
          /\ lres'.val.config = BackupOf(rid).val.config]_vars


\* C35: restoreBackup reports "backup not found" only from the read of a
\* backup file that does not exist, never from a failure inside the
\* saveAtomic it runs after the backup was read and validated.
C35_NotFoundOnlyWhenMissing ==
  [][(rres = "none" /\ rres' = "notfound")
       => /\ wpc["restore"] = "idle"
          /\ ~HasBackup(rid')]_vars


\* C36: the timestamp listBackups() reports for a backup is the time at
\* which that backup was written, for automatic copies and manual backups
\* alike.
C36_ListedTimestampIsCreationTime ==
  \A b \in listBackups : ListedTimestamp(b) = b.ts


\* A step of a createBackup() call in progress, the load() it starts with
\* included; steps of the environment that corrupt stored content are not
\* steps of the call.
CreateBackupStep ==
  /\ cpc # "idle"
  /\ lcaller = "createBackup"
  /\ corruptions' = corruptions

\* C37: createBackup() never modifies the live document, whether it is
\* intact, corrupt or absent; listing the backups (the first step of
\* recovery) modifies neither the live document nor the backups.
C37_ReadOnlyOperations ==
  [][/\ CreateBackupStep => live' = live
     /\ (lpc = "listing" /\ lpc' # "listing" /\ corruptions' = corruptions)
          => live' = live /\ backups' = backups]_vars


\* C38: createBackup() whose load() returned null (no live document)
\* fails with an error and adds no backup.
C38_NoBackupWithoutDocument ==
  [][(/\ cpc = "loading"
      /\ lcaller = "createBackup"
      /\ lpc = "returned"
      /\ lres.kind = "null"
      /\ cpc' # "loading")
       => /\ cpc' = "idle"
          /\ cres' = "error"
          /\ backups' = backups]_vars

\* C38 witness: on a data directory without a live file createBackup() has
\* failed.
C38_Witness ==
  /\ live.st = "absent"
  /\ cpc = "idle"
  /\ cres = "error"


\* ------------------------------------------------------------------------
\* services/storage/index.ts: getStorageAdapter, getStorageAdapterAsync
\* ------------------------------------------------------------------------
Callers == 1..NumCallers

adapterFrame ==
  <<now, live, backups, temp, faults, corruptions, cryptoSubtle,
    writeQueue, isProcessing, wpc, wdata, wid, wcur, werr, wn,
    cleanPending, cleanWarned, arg, ret, flushPc, rid, rres,
    lpc, lcaller, lcands, lcur, lres, lsnap, cpc, cres,
    submitted, saveStatus, liveWrites, oneWindow,
    saveQueue, saveTimeout, jobs, lstack, hasWindow>>

\* getStorageAdapterAsync() up to its first suspension.  With an instance
\* it returns it.  Without a promise it calls createStorageAdapter(),
\* which in the browser constructs the adapter before it returns its
\* promise and under Node awaits the import of node-storage first, and
\* then awaits the promise.  With a promise but no instance yet it falls
\* through to `return storageInstance`.
GetStorageAdapterAsync(c) ==
  /\ apc[c] = "idle"
  /\ IF storageInstance # Null
       THEN /\ aret' = [aret EXCEPT ![c] = Got("async", storageInstance)]
            /\ apc' = [apc EXCEPT ![c] = "done"]
            /\ UNCHANGED <<storageInstance, storagePromise, created>>
     ELSE IF storagePromise = NoPromise
       THEN /\ apc' = [apc EXCEPT ![c] = "awaiting"]
            /\ IF hasWindow
                 THEN /\ created' = created + 1
                      /\ storagePromise' = PromiseOf("resolved", created + 1)
                 ELSE /\ storagePromise' = PromiseOf("pending", Null)
                      /\ UNCHANGED created
            /\ UNCHANGED <<storageInstance, aret>>
     ELSE /\ aret' = [aret EXCEPT ![c] = Got("async", storageInstance)]
          /\ apc' = [apc EXCEPT ![c] = "done"]
          /\ UNCHANGED <<storageInstance, storagePromise, created>>
  /\ UNCHANGED adapterFrame

\* createStorageAdapter() under Node: the import settles and the adapter is
\* constructed, NodeStorage or the BrowserStorage of the catch.
CreateStorageAdapter ==
  /\ storagePromise.st = "pending"
  /\ created' = created + 1
  /\ storagePromise' = PromiseOf("resolved", created + 1)
  /\ UNCHANGED <<storageInstance, apc, aret>>
  /\ UNCHANGED adapterFrame

\* `storageInstance = await storagePromise` resumes; the call returns
\* storageInstance.
AwaitResumes(c) ==
  /\ apc[c] = "awaiting"
  /\ storagePromise.st = "resolved"
  /\ storageInstance' = storagePromise.val
  /\ aret' = [aret EXCEPT ![c] = Got("async", storagePromise.val)]
  /\ apc' = [apc EXCEPT ![c] = "done"]
  /\ UNCHANGED <<storagePromise, created>>
  /\ UNCHANGED adapterFrame

\* getStorageAdapter(): without an instance it constructs a BrowserStorage
\* in the browser and throws under Node.
GetStorageAdapter(c) ==
  /\ apc[c] = "idle"
  /\ apc' = [apc EXCEPT ![c] = "done"]
  /\ IF storageInstance # Null
       THEN /\ aret' = [aret EXCEPT ![c] = Got("sync", storageInstance)]
            /\ UNCHANGED <<storageInstance, created>>
     ELSE IF hasWindow
       THEN /\ created' = created + 1
            /\ storageInstance' = created + 1
            /\ aret' = [aret EXCEPT ![c] = Got("sync", created + 1)]
     ELSE /\ aret' = [aret EXCEPT ![c] = Got("error", Null)]
          /\ UNCHANGED <<storageInstance, created>>
  /\ UNCHANGED storagePromise
  /\ UNCHANGED adapterFrame

\* A freshly loaded module, in the browser or under Node.
InitAdapter ==
  /\ cryptoSubtle = TRUE
  /\ hasWindow \in BOOLEAN
  /\ live = Absent
  /\ backups = {}
  /\ InitProcess

NextAdapter ==
  \/ \E c \in Callers : GetStorageAdapterAsync(c)
  \/ CreateStorageAdapter
  \/ \E c \in Callers : AwaitResumes(c)
  \/ \E c \in Callers : GetStorageAdapter(c)

SpecAdapter == InitAdapter /\ [][NextAdapter]_vars

\* Only getStorageAdapterAsync() has been called.
OnlyAsyncCalls == \A c \in Callers : aret[c].via \in {"none", "async"}

\* C39: with callers of getStorageAdapterAsync() only, every call that has
\* returned resolved to the same adapter, never to null, and at most one
\* adapter has been constructed.
C39_SingletonAdapter ==
  OnlyAsyncCalls =>
    /\ created <= 1
    /\ \A c \in Callers :
         apc[c] = "done" => aret[c].val # Null
    /\ \A c, d \in Callers :
         (apc[c] = "done" /\ apc[d] = "done") => aret[c].val = aret[d].val

====
